---- MODULE Spec2Model ----
(***************************************************************************)
(* A model of the bitboard chess engine: the attack tables, the FEN        *)
(* decoder, the pseudo-legal and legal move generators, the check / pin    *)
(* analysis and makeMove / unmakeMove on a caller-owned undo stack.        *)
(*                                                                         *)
(* A 64-bit bitboard is modelled as the set of the squares (0..63) whose   *)
(* bit is set: | is \cup, & is \cap, & ~x is \ x, ^ is the symmetric       *)
(* difference, << n and >> n move every square by n and drop the squares   *)
(* that leave 0..63 (the bits shifted out of the 64-bit word).             *)
(***************************************************************************)
EXTENDS Integers, Sequences, FiniteSets, TLC

Squares == 0..63

\* 1ULL << sq
setBit(sq) == {sq}

\* bb << n on a 64-bit word
Shl(bb, n) == {s + n : s \in bb} \cap Squares

\* bb >> n on a 64-bit word
Shr(bb, n) == {s - n : s \in bb} \cap Squares

\* a ^ b
Xor(a, b) == (a \ b) \cup (b \ a)

\* std::countr_zero of a non-empty bitboard; 64 for the empty one
countr_zero(bb) == IF bb = {} THEN 64 ELSE CHOOSE s \in bb : \A t \in bb : s <= t

\* std::popcount
popcount(bb) == Cardinality(bb)

constAbs(x) == IF x < 0 THEN -x ELSE x

fileOf(sq) == sq % 8
rankOf(sq) == sq \div 8

FILE_A == {s \in Squares : s % 8 = 0}
FILE_H == {s \in Squares : s % 8 = 7}
FILE_B == Shl(FILE_A, 1)
FILE_G == Shr(FILE_H, 1)
RANK_1 == 0..7
RANK_2 == Shl(RANK_1, 8)
RANK_7 == Shl(RANK_1, 48)
RANK_8 == 56..63

WHITE_PAWN_ATTACKS ==
  [square \in Squares |->
     LET bit == setBit(square)
         northwest == Shl(bit \ FILE_A, 7)
         northeast == Shl(bit \ FILE_H, 9)
     IN  northwest \cup northeast]

BLACK_PAWN_ATTACKS ==
  [square \in Squares |->
     LET bit == setBit(square)
         southwest == Shr(bit \ FILE_A, 9)
         southeast == Shr(bit \ FILE_H, 7)
     IN  southwest \cup southeast]

KNIGHT_ATTACKS ==
  [square \in Squares |->
     LET bit == setBit(square)
     IN  (IF bit \cap (FILE_A \cup FILE_B) = {} /\ bit \cap RANK_8 = {} THEN Shl(bit, 6) ELSE {})
         \cup (IF bit \cap (FILE_G \cup FILE_H) = {} /\ bit \cap RANK_8 = {} THEN Shl(bit, 10) ELSE {})
         \cup (IF bit \cap FILE_A = {} /\ bit \cap (RANK_7 \cup RANK_8) = {} THEN Shl(bit, 15) ELSE {})
         \cup (IF bit \cap FILE_H = {} /\ bit \cap (RANK_7 \cup RANK_8) = {} THEN Shl(bit, 17) ELSE {})
         \cup (IF bit \cap (FILE_G \cup FILE_H) = {} /\ bit \cap RANK_1 = {} THEN Shr(bit, 6) ELSE {})
         \cup (IF bit \cap (FILE_A \cup FILE_B) = {} /\ bit \cap RANK_1 = {} THEN Shr(bit, 10) ELSE {})
         \cup (IF bit \cap FILE_H = {} /\ bit \cap (RANK_1 \cup RANK_2) = {} THEN Shr(bit, 15) ELSE {})
         \cup (IF bit \cap FILE_A = {} /\ bit \cap (RANK_1 \cup RANK_2) = {} THEN Shr(bit, 17) ELSE {})]

(***************************************************************************)
(* Slider attacks.  A ray is marched square by square from sq in direction *)
(* (dr, df) up to the limits of the loop (lo..hi on rank and file); the    *)
(* "slow" attack stops at the first occupied square, which it includes.    *)
(***************************************************************************)
RECURSIVE rayMask(_, _, _, _, _, _)
rayMask(r, f, dr, df, lo, hi) ==
  IF r < lo \/ r > hi \/ f < lo \/ f > hi THEN {}
  ELSE {r * 8 + f} \cup rayMask(r + dr, f + df, dr, df, lo, hi)

RECURSIVE raySlow(_, _, _, _, _)
raySlow(r, f, dr, df, occ) ==
  IF r < 0 \/ r > 7 \/ f < 0 \/ f > 7 THEN {}
  ELSE IF (r * 8 + f) \in occ THEN {r * 8 + f}
       ELSE {r * 8 + f} \cup raySlow(r + dr, f + df, dr, df, occ)

\* The rank (resp. file) loops of rookMask run on rr (resp. ff) only, so the
\* other coordinate is not clipped to 1..6.
rookMask(sq) ==
  LET r == rankOf(sq)
      f == fileOf(sq)
  IN  {rr * 8 + f : rr \in (r + 1)..6} \cup {rr * 8 + f : rr \in 1..(r - 1)}
      \cup {r * 8 + ff : ff \in (f + 1)..6} \cup {r * 8 + ff : ff \in 1..(f - 1)}

bishopMask(sq) ==
  LET r == rankOf(sq)
      f == fileOf(sq)
  IN  rayMask(r + 1, f + 1, 1, 1, 1, 6) \cup rayMask(r + 1, f - 1, 1, -1, 1, 6)
      \cup rayMask(r - 1, f + 1, -1, 1, 1, 6) \cup rayMask(r - 1, f - 1, -1, -1, 1, 6)

rookAttacksSlow(sq, occ) ==
  LET r == rankOf(sq)
      f == fileOf(sq)
  IN  raySlow(r + 1, f, 1, 0, occ) \cup raySlow(r - 1, f, -1, 0, occ)
      \cup raySlow(r, f + 1, 0, 1, occ) \cup raySlow(r, f - 1, 0, -1, occ)

bishopAttacksSlow(sq, occ) ==
  LET r == rankOf(sq)
      f == fileOf(sq)
  IN  raySlow(r + 1, f + 1, 1, 1, occ) \cup raySlow(r + 1, f - 1, 1, -1, occ)
      \cup raySlow(r - 1, f + 1, -1, 1, occ) \cup raySlow(r - 1, f - 1, -1, -1, occ)

(***************************************************************************)
(* Table lookups.  After initMagic the slot magicIndex(m, occupancy)       *)
(* holds the slow attack set of the blockers occupancy & m.mask (the       *)
(* fidelity of the tables themselves is the subject of SpecMagic).         *)
(***************************************************************************)
rookAttacks(square, occupancy) == rookAttacksSlow(square, occupancy \cap rookMask(square))

bishopAttacks(square, occupancy) == bishopAttacksSlow(square, occupancy \cap bishopMask(square))

queenAttacks(square, occupancy) ==
  rookAttacks(square, occupancy) \cup bishopAttacks(square, occupancy)

(***************************************************************************)
(* Board                                                                   *)
(***************************************************************************)
\* Board() = default
DefaultBoard ==
  [white |-> {}, black |-> {}, pawn |-> {}, bishop |-> {}, knight |-> {},
   rook |-> {}, king |-> {}, queen |-> {}, half_moves |-> 0, white_turn |-> TRUE,
   white_castle_kingside |-> TRUE, white_castle_queenside |-> TRUE,
   black_castle_kingside |-> TRUE, black_castle_queenside |-> TRUE]

\* MoveFlag
Quiet == 0
Capture == 1
DoublePush == 2
EnPassant == 4
Castle == 8
Promotion == 16

\* flags & flag, for a single-bit flag
HasFlag(flags, flag) == (flags \div flag) % 2 = 1

Move(from, to, flags) == [from |-> from, to |-> to, flags |-> flags]

currentOccupied(b) == IF b.white_turn THEN b.white ELSE b.black

nextOccupied(b) == IF b.white_turn THEN b.black ELSE b.white

kingSquare(b, white_side) ==
  countr_zero(b.king \cap (IF white_side THEN b.white ELSE b.black))

sameLineOrDiag(a, b) ==
  LET ar == a \div 8
      af == a % 8
      br == b \div 8
      bf == b % 8
  IN  (ar = br) \/ (af = bf) \/ (constAbs(ar - br) = constAbs(af - bf))

RECURSIVE betweenWalk(_, _, _, _, _, _)
betweenWalk(r, f, dr, df, br, bf) ==
  IF r = br /\ f = bf THEN {}
  ELSE {r * 8 + f} \cup betweenWalk(r + dr, f + df, dr, df, br, bf)

betweenMask(a, b) ==
  IF a = b THEN {}
  ELSE IF ~sameLineOrDiag(a, b) THEN {}
  ELSE LET ar == a \div 8
           af == a % 8
           br == b \div 8
           bf == b % 8
           dr == IF br > ar THEN 1 ELSE IF br < ar THEN -1 ELSE 0
           df == IF bf > af THEN 1 ELSE IF bf < af THEN -1 ELSE 0
       IN  (betweenWalk(ar + dr, af + df, dr, df, br, bf) \ {a}) \ {b}

knightAttacksFrom(knights) == UNION {KNIGHT_ATTACKS[sq] : sq \in knights}

pawnAttacksFrom(pawns, white_pawns) ==
  UNION {IF white_pawns THEN WHITE_PAWN_ATTACKS[sq] ELSE BLACK_PAWN_ATTACKS[sq] : sq \in pawns}

bishopAttacksFrom(bishops, occ) == UNION {bishopAttacks(sq, occ) : sq \in bishops}

rookAttacksFrom(rooks, occ) == UNION {rookAttacks(sq, occ) : sq \in rooks}

kingAttacksFrom(sq) ==
  LET bb == setBit(sq)
      notA == Squares \ FILE_A
      notH == Squares \ FILE_H
  IN  Shl(bb, 8) \cup Shr(bb, 8)
      \cup Shl(bb \cap notH, 1) \cup Shr(bb \cap notA, 1)
      \cup Shl(bb \cap notH, 9) \cup Shr(bb \cap notH, 7)
      \cup Shl(bb \cap notA, 7) \cup Shr(bb \cap notA, 9)

squareAttacked(sq, byWhite, b, occ) ==
  LET side == IF byWhite THEN b.white ELSE b.black
      pawns == b.pawn \cap side
      knights == b.knight \cap side
      bishops == b.bishop \cap side
      rooks == b.rook \cap side
      queens == b.queen \cap side
      kBB == b.king \cap side
  IN  \/ (IF byWhite THEN BLACK_PAWN_ATTACKS[sq] ELSE WHITE_PAWN_ATTACKS[sq]) \cap pawns # {}
      \/ KNIGHT_ATTACKS[sq] \cap knights # {}
      \/ bishopAttacks(sq, occ) \cap (bishops \cup queens) # {}
      \/ rookAttacks(sq, occ) \cap (rooks \cup queens) # {}
      \/ (kBB # {} /\ kingAttacksFrom(sq) \cap kBB # {})

(***************************************************************************)
(* Pseudo-legal move generation.  A loop "while (bb) popLSB(bb)" visits    *)
(* the squares of bb in ascending order; the moves are pushed in that      *)
(* order, so out is a sequence.                                            *)
(***************************************************************************)
RECURSIVE popLSB(_)
popLSB(bitboard) ==
  IF bitboard = {} THEN <<>>
  ELSE LET count == countr_zero(bitboard)
       IN  <<count>> \o popLSB(bitboard \ {count})

RECURSIVE FlatMap(_, _, _)
FlatMap(Op(_, _), b, bits) ==
  IF bits = <<>> THEN <<>>
  ELSE Op(b, Head(bits)) \o FlatMap(Op, b, Tail(bits))

\* the inner loop with every move left unflagged
movesTo_Unflagged(b, from, moves) ==
  LET tos == popLSB(moves)
  IN  [i \in 1..Len(tos) |-> Move(from, tos[i], 0)]

\* the inner "while (moves)" loop of the knight, bishop, rook, queen and king
\* generators: one move per destination, flagged Capture on an opponent square
movesTo(b, from, moves) ==
  LET next == nextOccupied(b)
      tos == popLSB(moves)
  IN  [i \in 1..Len(tos) |->
         Move(from, tos[i], IF tos[i] \in next THEN Capture ELSE 0)]

\* pawn moves with the two-square push tested on its destination alone
pawnMovesFrom_JumpingPush(b, from) ==
  LET next == nextOccupied(b)
      occ == b.white \cup b.black
      attacks == next \cap (IF b.white_turn THEN WHITE_PAWN_ATTACKS[from]
                                             ELSE BLACK_PAWN_ATTACKS[from])
      IS_LAST_RANK == IF b.white_turn THEN from >= 56 ELSE from <= 7
      to == IF b.white_turn THEN from + 8 ELSE from - 8
      on_start == IF b.white_turn THEN from <= 15 /\ from > 7
                                  ELSE from <= 55 /\ from > 47
      double_to == IF b.white_turn THEN from + 16 ELSE from - 16
  IN  movesTo(b, from, attacks)
      \o (IF IS_LAST_RANK \/ to \in occ THEN <<>> ELSE <<Move(from, to, 0)>>)
      \o (IF on_start /\ double_to \notin occ
          THEN <<Move(from, double_to, DoublePush)>> ELSE <<>>)

\* pawn moves without the two-square push from the starting rank
pawnMovesFrom_NoDoublePush(b, from) ==
  LET next == nextOccupied(b)
      occ == b.white \cup b.black
      attacks == next \cap (IF b.white_turn THEN WHITE_PAWN_ATTACKS[from]
                                             ELSE BLACK_PAWN_ATTACKS[from])
      IS_LAST_RANK == IF b.white_turn THEN from >= 56 ELSE from <= 7
      to == IF b.white_turn THEN from + 8 ELSE from - 8
  IN  movesTo(b, from, attacks)
      \o (IF IS_LAST_RANK \/ to \in occ THEN <<>> ELSE <<Move(from, to, 0)>>)

pawnMovesFrom(b, from) ==
  LET next == nextOccupied(b)
      occ == b.white \cup b.black
      attacks == next \cap (IF b.white_turn THEN WHITE_PAWN_ATTACKS[from]
                                             ELSE BLACK_PAWN_ATTACKS[from])
      tos == popLSB(attacks)
      captures == [i \in 1..Len(tos) |-> Move(from, tos[i], Capture)]
      IS_LAST_RANK == IF b.white_turn THEN from >= 56 ELSE from <= 7
      to == IF b.white_turn THEN from + 8 ELSE from - 8
      on_start == IF b.white_turn THEN from <= 15 /\ from > 7
                                  ELSE from <= 55 /\ from > 47
      double_to == IF b.white_turn THEN from + 16 ELSE from - 16
      pushes ==
        IF IS_LAST_RANK THEN <<>>
        ELSE IF to \in occ THEN <<>>
        ELSE <<Move(from, to, 0)>>
             \o (IF on_start
                 THEN (IF double_to \in occ THEN <<>>
                       ELSE <<Move(from, double_to, DoublePush)>>)
                 ELSE <<>>)
  IN  captures \o pushes

pawnMoves(b) == FlatMap(pawnMovesFrom, b, popLSB(currentOccupied(b) \cap b.pawn))

knightMovesFrom(b, from) ==
  movesTo(b, from, KNIGHT_ATTACKS[from] \ currentOccupied(b))

knightMoves(b) == FlatMap(knightMovesFrom, b, popLSB(b.knight \cap currentOccupied(b)))

bishopMovesFrom(b, from) ==
  movesTo(b, from, bishopAttacks(from, (b.white \cup b.black) \ {from}) \ currentOccupied(b))

bishopMoves(b) == FlatMap(bishopMovesFrom, b, popLSB(b.bishop \cap currentOccupied(b)))

rookMovesFrom(b, from) ==
  movesTo(b, from, rookAttacks(from, (b.white \cup b.black) \ {from}) \ currentOccupied(b))

rookMoves(b) == FlatMap(rookMovesFrom, b, popLSB(b.rook \cap currentOccupied(b)))

queenMovesFrom(b, from) ==
  LET occupancy == (b.white \cup b.black) \ {from}
  IN  movesTo(b, from, queenAttacks(from, occupancy) \ currentOccupied(b))

queenMoves(b) == FlatMap(queenMovesFrom, b, popLSB(b.queen \cap currentOccupied(b)))

kingMovesFrom(b, from) ==
  LET bb == setBit(from)
      notA == Squares \ FILE_A
      notH == Squares \ FILE_H
      attacks == Shl(bb, 8) \cup Shr(bb, 8)
                 \cup Shl(bb \cap notH, 1) \cup Shr(bb \cap notA, 1)
                 \cup Shl(bb \cap notH, 9) \cup Shr(bb \cap notH, 7)
                 \cup Shl(bb \cap notA, 7) \cup Shr(bb \cap notA, 9)
  IN  movesTo(b, from, attacks \ currentOccupied(b))

kingMoves(b) == FlatMap(kingMovesFrom, b, popLSB(b.king \cap currentOccupied(b)))

generatePseudoMoves(b) ==
  pawnMoves(b) \o knightMoves(b) \o bishopMoves(b) \o rookMoves(b)
  \o queenMoves(b) \o kingMoves(b)

(***************************************************************************)
(* analyzeChecks                                                           *)
(***************************************************************************)
NoPin == [firstSq |-> -1, ray |-> {}]

\* the walk of markPin from (r, f); firstSq = -1 until a piece has been seen
RECURSIVE markPinWalk(_, _, _, _, _, _, _, _)
markPinWalk(b, ksq, r, f, dr, df, rook_dir, firstSq) ==
  IF ~(r >= 0 /\ r < 8 /\ f >= 0 /\ f < 8) THEN NoPin
  ELSE LET sq == r * 8 + f
           occ == b.white \cup b.black
           next == IF b.white_turn THEN b.black ELSE b.white
           rooksLike == (b.rook \cap next) \cup (b.queen \cap next)
           bishopsLike == (b.bishop \cap next) \cup (b.queen \cap next)
       IN  IF sq \in occ
           THEN IF firstSq = -1
                THEN IF sq \in next THEN NoPin
                     ELSE markPinWalk(b, ksq, r + dr, f + df, dr, df, rook_dir, sq)
                ELSE LET enemyIsRookLike == sq \in rooksLike
                         enemyIsBishopLike == sq \in bishopsLike
                         ok == IF rook_dir THEN enemyIsRookLike ELSE enemyIsBishopLike
                         ray == betweenWalk((ksq \div 8) + dr, (ksq % 8) + df, dr, df, r, f)
                                \cup {sq}
                     IN  IF ok THEN [firstSq |-> firstSq, ray |-> ray \cup {ksq}]
                         ELSE NoPin
           ELSE markPinWalk(b, ksq, r + dr, f + df, dr, df, rook_dir, firstSq)

\* markPin that takes every direction for a rook direction
markPin_AllRookDirs(b, ksq, dr, df, rook_dir) ==
  markPinWalk(b, ksq, (ksq \div 8) + dr, (ksq % 8) + df, dr, df, TRUE, -1)

markPin(b, ksq, dr, df, rook_dir) ==
  markPinWalk(b, ksq, (ksq \div 8) + dr, (ksq % 8) + df, dr, df, rook_dir, -1)

\* 1) the checkers of the side to move's king
checkersOf(b) ==
  LET next == IF b.white_turn THEN b.black ELSE b.white
      occ == b.white \cup b.black
      ksq == kingSquare(b, b.white_turn)
      enemyPawns == b.pawn \cap next
      enemyKnights == b.knight \cap next
      bishopsLike == (b.bishop \cap next) \cup (b.queen \cap next)
      rooksLike == (b.rook \cap next) \cup (b.queen \cap next)
  IN  (KNIGHT_ATTACKS[ksq] \cap enemyKnights)
      \cup (IF b.white_turn THEN BLACK_PAWN_ATTACKS[ksq] \cap enemyPawns
                            ELSE WHITE_PAWN_ATTACKS[ksq] \cap enemyPawns)
      \cup (bishopAttacks(ksq, occ) \cap bishopsLike)
      \cup (rookAttacks(ksq, occ) \cap rooksLike)

\* the block mask of a single checker without the squares in between
blockMaskOf_NoBetween(b, checkers) ==
  IF popcount(checkers) = 1 THEN setBit(countr_zero(checkers)) ELSE {}

\* 2) the block mask
blockMaskOf(b, checkers) ==
  LET next == IF b.white_turn THEN b.black ELSE b.white
      ksq == kingSquare(b, b.white_turn)
      bishopsLike == (b.bishop \cap next) \cup (b.queen \cap next)
      rooksLike == (b.rook \cap next) \cup (b.queen \cap next)
      numCheckers == popcount(checkers)
      checkerSq == countr_zero(checkers)
      checkerBB == setBit(checkerSq)
      slidingChecker == (checkerBB \cap (bishopsLike \cup rooksLike) # {})
                        /\ sameLineOrDiag(ksq, checkerSq)
  IN  IF numCheckers = 1
      THEN IF slidingChecker THEN betweenMask(ksq, checkerSq) \cup checkerBB
           ELSE checkerBB
      ELSE {}

\* 4) the enemy attack map
kingUnsafeOf(b) ==
  LET next == IF b.white_turn THEN b.black ELSE b.white
      occ == b.white \cup b.black
      enemyPawns == b.pawn \cap next
      enemyKnights == b.knight \cap next
      enemyBishops == b.bishop \cap next
      enemyRooks == b.rook \cap next
      enemyQueens == b.queen \cap next
      enemyKingSq == kingSquare(b, ~b.white_turn)
  IN  pawnAttacksFrom(enemyPawns, ~b.white_turn)
      \cup knightAttacksFrom(enemyKnights)
      \cup bishopAttacksFrom(enemyBishops \cup enemyQueens, occ)
      \cup rookAttacksFrom(enemyRooks \cup enemyQueens, occ)
      \cup kingAttacksFrom(enemyKingSq)

analyzeChecks(b) ==
  LET ksq == kingSquare(b, b.white_turn)
      checkers == checkersOf(b)
      pins == <<markPin(b, ksq, 1, 0, TRUE), markPin(b, ksq, -1, 0, TRUE),
                markPin(b, ksq, 0, 1, TRUE), markPin(b, ksq, 0, -1, TRUE),
                markPin(b, ksq, 1, 1, FALSE), markPin(b, ksq, 1, -1, FALSE),
                markPin(b, ksq, -1, 1, FALSE), markPin(b, ksq, -1, -1, FALSE)>>
      found == {i \in 1..8 : pins[i].firstSq # -1}
  IN  [checkers |-> checkers,
       block_mask |-> blockMaskOf(b, checkers),
       pinned |-> {pins[i].firstSq : i \in found},
       king_unsafe |-> kingUnsafeOf(b),
       pin_dirs |-> [s \in Squares |->
                       IF \E i \in found : pins[i].firstSq = s
                       THEN pins[CHOOSE i \in found : pins[i].firstSq = s
                                   /\ \A j \in found : pins[j].firstSq = s => j <= i].ray
                       ELSE {}]]

(***************************************************************************)
(* generateLegalMoves: the pseudo-legal moves that pass the filter, in     *)
(* the order generated.                                                    *)
(***************************************************************************)
\* the filter with the king-move test alone
legalFilter_KingTest(b, mv) ==
  LET occ == b.white \cup b.black
      occ_for == IF mv.to \in nextOccupied(b) THEN (occ \ {mv.from}) \ {mv.to}
                 ELSE occ \ {mv.from}
  IN  ~squareAttacked(mv.to, ~b.white_turn, b, occ_for)

\* the filter without "if (checks >= 2) continue"
legalFilter_NoDoubleCheck(b, check_info, mv) ==
  LET checks == popcount(check_info.checkers)
  IN  IF mv.from \in (b.king \cap currentOccupied(b)) THEN legalFilter_KingTest(b, mv)
      ELSE IF (mv.from \in check_info.pinned)
              /\ (mv.to \notin check_info.pin_dirs[mv.from]) THEN FALSE
      ELSE IF checks = 1 /\ (mv.to \notin check_info.block_mask) THEN FALSE
      ELSE TRUE

\* the filter without the pin test
legalFilter_NoPin(b, check_info, mv) ==
  LET checks == popcount(check_info.checkers)
  IN  IF mv.from \in (b.king \cap currentOccupied(b)) THEN legalFilter_KingTest(b, mv)
      ELSE IF checks >= 2 THEN FALSE
      ELSE IF checks = 1 /\ (mv.to \notin check_info.block_mask) THEN FALSE
      ELSE TRUE

\* the filter without the block-mask test
legalFilter_NoBlock(b, check_info, mv) ==
  LET checks == popcount(check_info.checkers)
  IN  IF mv.from \in (b.king \cap currentOccupied(b)) THEN legalFilter_KingTest(b, mv)
      ELSE IF checks >= 2 THEN FALSE
      ELSE IF (mv.from \in check_info.pinned)
              /\ (mv.to \notin check_info.pin_dirs[mv.from]) THEN FALSE
      ELSE TRUE

\* the filter with the king's destination tested on the occupancy as it is,
\* the king still on its origin square
legalFilter_KingInOcc(b, check_info, mv) ==
  LET checks == popcount(check_info.checkers)
  IN  IF mv.from \in (b.king \cap currentOccupied(b))
      THEN ~squareAttacked(mv.to, ~b.white_turn, b, b.white \cup b.black)
      ELSE IF checks >= 2 THEN FALSE
      ELSE IF (mv.from \in check_info.pinned)
              /\ (mv.to \notin check_info.pin_dirs[mv.from]) THEN FALSE
      ELSE IF checks = 1 /\ (mv.to \notin check_info.block_mask) THEN FALSE
      ELSE TRUE

\* the body of the filter loop: TRUE when mv is pushed to out
legalFilter(b, check_info, mv) ==
  LET checks == popcount(check_info.checkers)
      occ == b.white \cup b.black
      current_bb == currentOccupied(b)
      next_bb == nextOccupied(b)
      from_bb == setBit(mv.from)
      to_bb == setBit(mv.to)
      movingKing == ((b.king \cap current_bb) \cap from_bb) # {}
      occ_for == IF to_bb \cap next_bb # {} THEN (occ \ from_bb) \ to_bb
                 ELSE occ \ from_bb
  IN  IF movingKing THEN ~squareAttacked(mv.to, ~b.white_turn, b, occ_for)
      ELSE IF checks >= 2 THEN FALSE
      ELSE IF (check_info.pinned \cap from_bb # {})
              /\ (check_info.pin_dirs[mv.from] \cap to_bb = {}) THEN FALSE
      ELSE IF checks = 1 /\ (check_info.block_mask \cap to_bb = {}) THEN FALSE
      ELSE TRUE

generateLegalMoves(b) ==
  LET pseudo == generatePseudoMoves(b)
      check_info == analyzeChecks(b)
  IN  SelectSeq(pseudo, LAMBDA mv : legalFilter(b, check_info, mv))

(***************************************************************************)
(* makeMove / unmakeMove                                                   *)
(***************************************************************************)
\* which piece-type set holds the origin square ("none": the assert fails)
moverOf(b, move) ==
  IF move.from \in b.pawn THEN "pawn"
  ELSE IF move.from \in b.knight THEN "knight"
  ELSE IF move.from \in b.bishop THEN "bishop"
  ELSE IF move.from \in b.rook THEN "rook"
  ELSE IF move.from \in b.queen THEN "queen"
  ELSE IF move.from \in b.king THEN "king"
  ELSE "none"

\* makeMove that only toggles: the mover is not set again after the capture
\* branch has cleared the destination
makeMoveBoard_ToggleOnly(b, move) ==
  LET move_board == {move.from, move.to}
      mover == moverOf(b, move)
      color == IF b.white_turn THEN "white" ELSE "black"
      enemy == IF b.white_turn THEN "black" ELSE "white"
      b1 == [b EXCEPT ![mover] = Xor(@, move_board), ![color] = Xor(@, move_board)]
      b2 == IF HasFlag(move.flags, Capture)
            THEN [b1 EXCEPT ![enemy] = @ \ {move.to},
                            !.pawn = @ \ {move.to}, !.knight = @ \ {move.to},
                            !.bishop = @ \ {move.to}, !.rook = @ \ {move.to},
                            !.queen = @ \ {move.to}, !.king = @ \ {move.to}]
            ELSE b1
  IN  [b2 EXCEPT !.white_turn = ~b.white_turn]

\* makeMove without the capture branch: the captured piece stays in its sets
makeMoveBoard_NoCapture(b, move) ==
  LET move_board == {move.from, move.to}
      mover == moverOf(b, move)
      color == IF b.white_turn THEN "white" ELSE "black"
      b3 == [b EXCEPT ![mover] = (@ \ move_board) \cup {move.to},
                      ![color] = (@ \ move_board) \cup {move.to}]
  IN  [b3 EXCEPT !.white_turn = ~b.white_turn]

\* makeMove without white_turn = !white_turn
makeMoveBoard_SameTurn(b, move) ==
  LET move_board == {move.from, move.to}
      mover == moverOf(b, move)
      color == IF b.white_turn THEN "white" ELSE "black"
      enemy == IF b.white_turn THEN "black" ELSE "white"
      b2 == IF HasFlag(move.flags, Capture)
            THEN [b EXCEPT ![enemy] = @ \ {move.to},
                           !.pawn = @ \ {move.to}, !.knight = @ \ {move.to},
                           !.bishop = @ \ {move.to}, !.rook = @ \ {move.to},
                           !.queen = @ \ {move.to}, !.king = @ \ {move.to}]
            ELSE b
  IN  [b2 EXCEPT ![mover] = (@ \ move_board) \cup {move.to},
                 ![color] = (@ \ move_board) \cup {move.to}]

\* the Position after makeMove: everything after undo_stack.push(*this)
makeMoveBoard(b, move) ==
  LET from_board == setBit(move.from)
      to_board == setBit(move.to)
      move_board == from_board \cup to_board
      mover == moverOf(b, move)
      color == IF b.white_turn THEN "white" ELSE "black"
      enemy == IF b.white_turn THEN "black" ELSE "white"
      \* *mover ^= move_board; color ^= move_board
      b1 == [b EXCEPT ![mover] = Xor(@, move_board), ![color] = Xor(@, move_board)]
      \* the capture branch
      b2 == IF HasFlag(move.flags, Capture)
            THEN [b1 EXCEPT ![enemy] = @ \ to_board,
                            !.pawn = @ \ to_board, !.knight = @ \ to_board,
                            !.bishop = @ \ to_board, !.rook = @ \ to_board,
                            !.queen = @ \ to_board, !.king = @ \ to_board]
            ELSE b1
      \* *mover &= ~from_board; *mover |= to_board; the same on the color set
      b3 == [b2 EXCEPT ![mover] = (@ \ from_board) \cup to_board,
                       ![color] = (@ \ from_board) \cup to_board]
  IN  [b3 EXCEPT !.white_turn = ~b.white_turn]

\* makeMove that pushes the Board after changing it
makeMove_PushAfter(b, stack, move) ==
  [board |-> makeMoveBoard(b, move), undo_stack |-> Append(stack, makeMoveBoard(b, move))]

\* makeMove on the Board b whose undo stack is stack (top last): the Board is
\* pushed, then changed
makeMove(b, stack, move) ==
  [board |-> makeMoveBoard(b, move), undo_stack |-> Append(stack, b)]

\* the stack is popped without being read
unmakeMove_NoRestore(b, stack) ==
  [board |-> b, undo_stack |-> SubSeq(stack, 1, Len(stack) - 1)]

\* unmakeMove on a non-empty stack: *this = undo_stack.top(); undo_stack.pop()
unmakeMove(b, stack) ==
  [board |-> stack[Len(stack)], undo_stack |-> SubSeq(stack, 1, Len(stack) - 1)]

(***************************************************************************)
(* initFEN.  A string is a sequence of one-character strings.              *)
(***************************************************************************)
DigitChars == <<"0", "1", "2", "3", "4", "5", "6", "7", "8", "9">>

UpperChars ==
  <<"A", "B", "C", "D", "E", "F", "G", "H", "I", "J", "K", "L", "M",
    "N", "O", "P", "Q", "R", "S", "T", "U", "V", "W", "X", "Y", "Z">>

LowerChars ==
  <<"a", "b", "c", "d", "e", "f", "g", "h", "i", "j", "k", "l", "m",
    "n", "o", "p", "q", "r", "s", "t", "u", "v", "w", "x", "y", "z">>

isdigit(c) == \E i \in 1..Len(DigitChars) : DigitChars[i] = c

digitValue(c) == (CHOOSE i \in 1..Len(DigitChars) : DigitChars[i] = c) - 1

isupper(c) == \E i \in 1..Len(UpperChars) : UpperChars[i] = c

tolower(c) ==
  IF isupper(c) THEN LowerChars[CHOOSE i \in 1..Len(UpperChars) : UpperChars[i] = c]
  ELSE c

\* str | std::views::split(delim): the pieces between the delimiters; an
\* empty string has no piece at all
RECURSIVE splitFrom(_, _, _, _)
splitFrom(str, delim, i, piece) ==
  IF i > Len(str) THEN <<piece>>
  ELSE IF str[i] = delim THEN <<piece>> \o splitFrom(str, delim, i + 1, <<>>)
  ELSE splitFrom(str, delim, i + 1, Append(piece, str[i]))

split(str, delim) == IF str = <<>> THEN <<>> ELSE splitFrom(str, delim, 1, <<>>)

\* the rank loop with the first rank listed taken as rank 1
RECURSIVE parseRank_FromBottom(_, _, _, _)
parseRank_FromBottom(rank, rank_i, i, st) ==
  IF i > Len(rank) THEN st
  ELSE LET c == rank[i]
           is_white == isupper(c)
           lc == tolower(c)
           file == st.file
           bit == setBit(rank_i * 8 + file)
           bd == st.board
           colored == IF is_white THEN [bd EXCEPT !.white = @ \cup bit]
                      ELSE [bd EXCEPT !.black = @ \cup bit]
           placed ==
             IF lc = "p" THEN [colored EXCEPT !.pawn = @ \cup bit]
             ELSE IF lc = "n" THEN [colored EXCEPT !.knight = @ \cup bit]
             ELSE IF lc = "b" THEN [colored EXCEPT !.bishop = @ \cup bit]
             ELSE IF lc = "r" THEN [colored EXCEPT !.rook = @ \cup bit]
             ELSE IF lc = "q" THEN [colored EXCEPT !.queen = @ \cup bit]
             ELSE IF lc = "k" THEN [colored EXCEPT !.king = @ \cup bit]
             ELSE colored
       IN  IF isdigit(c)
           THEN parseRank_FromBottom(rank, rank_i, i + 1,
                                     [st EXCEPT !.file = @ + digitValue(c)])
           ELSE IF file < 0 \/ file >= 8
           THEN parseRank_FromBottom(rank, rank_i, i + 1, st)
           ELSE parseRank_FromBottom(rank, rank_i, i + 1,
                                     [file |-> file + 1, board |-> placed])

\* the loop over the characters of one rank: st = [file, board]
RECURSIVE parseRank(_, _, _, _)
parseRank(rank, rank_i, i, st) ==
  IF i > Len(rank) THEN st
  ELSE LET c == rank[i]
           is_white == isupper(c)
           lc == tolower(c)
           file == st.file
           bit == setBit((7 - rank_i) * 8 + file)
           bd == st.board
           colored == IF is_white THEN [bd EXCEPT !.white = @ \cup bit]
                      ELSE [bd EXCEPT !.black = @ \cup bit]
           placed ==
             IF lc = "p" THEN [colored EXCEPT !.pawn = @ \cup bit]
             ELSE IF lc = "n" THEN [colored EXCEPT !.knight = @ \cup bit]
             ELSE IF lc = "b" THEN [colored EXCEPT !.bishop = @ \cup bit]
             ELSE IF lc = "r" THEN [colored EXCEPT !.rook = @ \cup bit]
             ELSE IF lc = "q" THEN [colored EXCEPT !.queen = @ \cup bit]
             ELSE IF lc = "k" THEN [colored EXCEPT !.king = @ \cup bit]
             ELSE colored
       IN  IF isdigit(c)
           THEN parseRank(rank, rank_i, i + 1, [st EXCEPT !.file = @ + digitValue(c)])
           ELSE IF file < 0 \/ file >= 8
           THEN parseRank(rank, rank_i, i + 1, st)
           ELSE parseRank(rank, rank_i, i + 1, [file |-> file + 1, board |-> placed])

\* ranks[rank_i]; past the end the read is out of bounds and yields garbage
rankAt(ranks, rank_i, garbage) ==
  IF rank_i + 1 <= Len(ranks) THEN ranks[rank_i + 1] ELSE garbage

RECURSIVE parseRanks(_, _, _, _)
parseRanks(ranks, rank_i, bd, garbage) ==
  IF rank_i >= 8 THEN bd
  ELSE parseRanks(ranks, rank_i + 1,
                  parseRank(rankAt(ranks, rank_i, garbage), rank_i, 1,
                            [file |-> 0, board |-> bd]).board,
                  garbage)

INT_MAX == 2147483647

\* std::stoi: an optional sign, then the longest run of digits; what follows
\* is ignored.  "invalid_argument" when there is no digit, "out_of_range"
\* when the value does not fit an int.
RECURSIVE stoiDigits(_, _, _, _)
stoiDigits(str, i, acc, neg) ==
  IF i > Len(str) \/ ~isdigit(str[i]) THEN [kind |-> "value", value |-> IF neg THEN -acc ELSE acc]
  ELSE LET d == digitValue(str[i])
           limit == IF neg THEN 8 ELSE 7
           more == i + 1 <= Len(str) /\ isdigit(str[i + 1])
       IN  IF acc > INT_MAX \div 10 \/ (acc = INT_MAX \div 10 /\ d > limit)
           THEN [kind |-> "out_of_range", value |-> 0]
           ELSE IF acc = INT_MAX \div 10 /\ d = 8
           THEN (IF more THEN [kind |-> "out_of_range", value |-> 0]
                 ELSE [kind |-> "value", value |-> (-INT_MAX) - 1])
           ELSE stoiDigits(str, i + 1, acc * 10 + d, neg)

stoi(str) ==
  LET signed == Len(str) >= 1 /\ str[1] \in {"+", "-"}
      start == IF signed THEN 2 ELSE 1
      neg == signed /\ str[1] = "-"
  IN  IF start > Len(str) \/ ~isdigit(str[start])
      THEN [kind |-> "invalid_argument", value |-> 0]
      ELSE stoiDigits(str, start, 0, neg)

\* what the out-of-bounds reads of sections[] and ranks[] may yield
GarbageStrings == {<<>>, <<"w">>, <<"K", "7">>, <<"1">>}

\* the outcomes of initFEN(fen): [kind, board, oob].  kind is "position" (a
\* Board is returned), "invalid_argument" or "out_of_range" (std::stoi
\* throws) or "crash" (an out-of-bounds read faults).  oob records that the
\* call indexed sections or ranks past the end.  Every out-of-bounds read of
\* one call yields the same garbage string.
initFEN(fen) ==
  LET sections == split(fen, " ")
      section0_oob == Len(sections) < 1
      oobOf(ranks) == Len(sections) < 5 \/ Len(ranks) < 8
      outcome(garbage) ==
        LET section0 == IF section0_oob THEN garbage ELSE sections[1]
            ranks == split(section0, "/")
            placed == parseRanks(ranks, 0, DefaultBoard, garbage)
            section1 == IF Len(sections) < 2 THEN garbage ELSE sections[2]
            section4 == IF Len(sections) < 5 THEN garbage ELSE sections[5]
            half == stoi(section4)
        IN  IF half.kind = "value"
            THEN [kind |-> "position",
                  board |-> [placed EXCEPT !.white_turn = (section1 = <<"w">>),
                                           !.half_moves = half.value],
                  oob |-> oobOf(ranks)]
            ELSE [kind |-> half.kind, board |-> DefaultBoard, oob |-> oobOf(ranks)]
      clean == outcome(<<>>)
  IN  IF clean.oob
      THEN {outcome(g) : g \in GarbageStrings}
           \cup {[kind |-> "crash", board |-> DefaultBoard, oob |-> TRUE]}
      ELSE {clean}

(***************************************************************************)
(* The FEN strings given to initFEN.                                       *)
(***************************************************************************)
\* rnbqkbnr/pppppppp/8/8/8/8/PPPPPPPP/RNBQKBNR w KQkq - 0 1
STARTING_FEN ==
  <<"r", "n", "b", "q", "k", "b", "n", "r", "/", "p", "p", "p", "p", "p",
    "p", "p", "p", "/", "8", "/", "8", "/", "8", "/", "8", "/", "P", "P",
    "P", "P", "P", "P", "P", "P", "/", "R", "N", "B", "Q", "K", "B", "N",
    "R", " ", "w", " ", "K", "Q", "k", "q", " ", "-", " ", "0", " ", "1">>

\* 4k3/8/8/8/3p4/4K3/8/R7 w - - 0 1
FEN_PawnCheck ==
  <<"4", "k", "3", "/", "8", "/", "8", "/", "8", "/", "3", "p", "4", "/",
    "4", "K", "3", "/", "8", "/", "R", "7", " ", "w", " ", "-", " ", "-",
    " ", "0", " ", "1">>

\* 4k3/8/8/8/8/4K3/3p4/R7 w - - 0 1
FEN_PawnBehind ==
  <<"4", "k", "3", "/", "8", "/", "8", "/", "8", "/", "8", "/", "4", "K",
    "3", "/", "3", "p", "4", "/", "R", "7", " ", "w", " ", "-", " ", "-",
    " ", "0", " ", "1">>

\* 4r1k1/8/8/7B/R7/8/8/4K1N1 w - - 0 1
FEN_RookCheck ==
  <<"4", "r", "1", "k", "1", "/", "8", "/", "8", "/", "7", "B", "/", "R",
    "7", "/", "8", "/", "8", "/", "4", "K", "1", "N", "1", " ", "w", " ",
    "-", " ", "-", " ", "0", " ", "1">>

\* 4r1k1/8/8/8/8/5n2/8/4K1N1 w - - 0 1
FEN_DoubleCheck ==
  <<"4", "r", "1", "k", "1", "/", "8", "/", "8", "/", "8", "/", "8", "/",
    "5", "n", "2", "/", "8", "/", "4", "K", "1", "N", "1", " ", "w", " ",
    "-", " ", "-", " ", "0", " ", "1">>

\* 4r1k1/8/8/b7/4R3/8/3Q4/4K3 w - - 0 1
FEN_Pins ==
  <<"4", "r", "1", "k", "1", "/", "8", "/", "8", "/", "b", "7", "/", "4",
    "R", "3", "/", "8", "/", "3", "Q", "4", "/", "4", "K", "3", " ", "w",
    " ", "-", " ", "-", " ", "0", " ", "1">>

\* 8/8/4k3/3P4/8/8/r7/4K3 b - - 7 1
FEN_BlackPawnCheck ==
  <<"8", "/", "8", "/", "4", "k", "3", "/", "3", "P", "4", "/", "8", "/",
    "8", "/", "r", "7", "/", "4", "K", "3", " ", "b", " ", "-", " ", "-",
    " ", "7", " ", "1">>

\* a FEN assembled from a board field, a side field and a half-move field
FenOf(placement, side, half) ==
  placement \o <<" ">> \o side \o <<" ", "-", " ", "-", " ">> \o half \o <<" ", "1">>

KingsOnly == <<"4", "k", "3", "/", "8", "/", "8", "/", "8", "/", "8", "/", "8", "/", "8", "/", "4", "K", "3">>

\* malformed inputs, one per kind of defect
FEN_Empty == <<>>

FEN_OneField == KingsOnly

FEN_FiveFields == KingsOnly \o <<" ", "w", " ", "-", " ", "-", " ", "0">>

FEN_ShortRank ==
  FenOf(<<"4", "k", "3", "/", "8", "/", "8", "/", "8", "/", "8", "/", "8", "/", "8", "/", "3", "K", "3">>,
        <<"w">>, <<"0">>)

FEN_LongRank ==
  FenOf(<<"4", "k", "3", "/", "8", "/", "8", "/", "8", "/", "8", "/", "8", "/", "8", "/", "4", "K", "3", "P">>,
        <<"w">>, <<"0">>)

FEN_SevenRanks ==
  FenOf(<<"4", "k", "3", "/", "8", "/", "8", "/", "8", "/", "8", "/", "8", "/", "4", "K", "3">>,
        <<"w">>, <<"0">>)

FEN_NineRanks == FenOf(KingsOnly \o <<"/", "8">>, <<"w">>, <<"0">>)

FEN_BadChar ==
  FenOf(<<"4", "k", "3", "/", "8", "/", "8", "/", "8", "/", "8", "/", "8", "/", "x", "7", "/", "4", "K", "3">>,
        <<"w">>, <<"0">>)

FEN_BadClock == FenOf(KingsOnly, <<"b">>, <<"x">>)

FEN_ClockSuffix == FenOf(KingsOnly, <<"b">>, <<"1", "x">>)

FEN_ClockTooBig ==
  FenOf(KingsOnly, <<"w">>, <<"9", "9", "9", "9", "9", "9", "9", "9", "9", "9", "9">>)

\* 4k3/8/8/8/8/8/8/4K3 b - - 37 1
FEN_HalfMoves ==
  <<"4", "k", "3", "/", "8", "/", "8", "/", "8", "/", "8", "/", "8", "/", "8", "/",
    "4", "K", "3", " ", "b", " ", "-", " ", "-", " ", "3", "7", " ", "1">>

WellFormedFENs ==
  {STARTING_FEN, FEN_PawnCheck, FEN_PawnBehind, FEN_RookCheck, FEN_DoubleCheck,
   FEN_Pins, FEN_BlackPawnCheck, FEN_HalfMoves}

MalformedFENs ==
  {FEN_Empty, FEN_OneField, FEN_FiveFields, FEN_ShortRank, FEN_LongRank,
   FEN_SevenRanks, FEN_NineRanks, FEN_BadChar, FEN_BadClock, FEN_ClockSuffix,
   FEN_ClockTooBig}

FENs == WellFormedFENs \cup MalformedFENs

(***************************************************************************)
(* The program: a Board is built by initFEN, then moves taken from         *)
(* generateLegalMoves are made and unmade on one undo stack.               *)
(***************************************************************************)
\* the longest undo stack explored
MaxPly == 2

VARIABLES
  board,       \* the Board
  undo_stack,  \* std::stack<Board>, top last
  fen,         \* the string given to initFEN
  result,      \* "none" before initFEN, then the kind of its outcome
  op,          \* the last call: "none", "initFEN", "makeMove", "unmakeMove",
               \* "generateLegalMoves"
  oob,         \* TRUE once a call has read out of bounds (undefined behaviour)
  perft,       \* the perft driver: [depth, frames, nodes, results]
  init_magic,  \* initMagic in progress: [pc, sq, rook, bishop, verdict, tries]
  ROOK_MAGIC_DATA,
  BISHOP_MAGIC_DATA,
  SLIDER_ATTACKS,
  query,       \* the last table lookup: [slider, square, occupancy, attacks]
  ret          \* the last call of a const member function of Board:
               \* [call, board (the Board it ran on), value (what it returned)]

gameVars == <<board, undo_stack, fen, result, op, oob, perft>>

magicVars == <<init_magic, ROOK_MAGIC_DATA, BISHOP_MAGIC_DATA, SLIDER_ATTACKS, query>>

vars == <<board, undo_stack, fen, result, op, oob, perft,
          init_magic, ROOK_MAGIC_DATA, BISHOP_MAGIC_DATA, SLIDER_ATTACKS, query, ret>>

\* BuiltMagic{}
EmptyBuilt == [data |-> <<>>, table |-> <<>>]

NoQuery == [slider |-> "none", square |-> 0, occupancy |-> {}, attacks |-> {}]

NoCall == [call |-> "none", board |-> DefaultBoard, value |-> 0]

\* Spec and SpecPerft start after initMagic; they do not carry the tables in
\* the state: rookAttacks and bishopAttacks stand for the lookups
TablesBuilt ==
  /\ init_magic = [pc |-> "ready", sq |-> 0, rook |-> EmptyBuilt, bishop |-> EmptyBuilt,
                   verdict |-> "none", tries |-> 0]
  /\ ROOK_MAGIC_DATA = <<>>
  /\ BISHOP_MAGIC_DATA = <<>>
  /\ SLIDER_ATTACKS = <<>>
  /\ query = NoQuery

PerftIdle == [depth |-> 0, frames |-> <<>>, nodes |-> 0, results |-> <<>>]

\* both kings are on the board: kingSquare returns a square, not 64
HasKings(b) == kingSquare(b, TRUE) < 64 /\ kingSquare(b, FALSE) < 64

Init ==
  /\ board = DefaultBoard
  /\ undo_stack = <<>>
  /\ fen = <<>>
  /\ result = "none"
  /\ op = "none"
  /\ oob = FALSE
  /\ perft = PerftIdle
  /\ TablesBuilt
  /\ ret = NoCall

\* Board board = Board::initFEN(fen)
InitFEN ==
  /\ result = "none"
  /\ \E f \in FENs :
       \E r \in initFEN(f) :
         /\ fen' = f
         /\ board' = r.board
         /\ result' = r.kind
         /\ oob' = r.oob
  /\ op' = "initFEN"
  /\ UNCHANGED <<undo_stack, perft>>
  /\ UNCHANGED magicVars
  /\ UNCHANGED ret

\* the calls that follow are those of a program that holds a Board and has
\* not yet run into undefined behaviour
Running == result = "position" /\ ~oob

\* generateLegalMoves, then makeMove with one of the moves returned
MakeMove ==
  /\ Running
  /\ HasKings(board)
  /\ Len(undo_stack) < MaxPly
  /\ LET moves == generateLegalMoves(board)
     IN  \E i \in 1..Len(moves) :
           /\ moverOf(board, moves[i]) # "none"
           /\ undo_stack' = makeMove(board, undo_stack, moves[i]).undo_stack
           /\ board' = makeMove(board, undo_stack, moves[i]).board
  /\ op' = "makeMove"
  /\ UNCHANGED <<fen, result, oob, perft>>
  /\ UNCHANGED magicVars
  /\ UNCHANGED ret

\* generateLegalMoves on a Board that lacks a king: kingSquare returns 64 and
\* analyzeChecks indexes KNIGHT_ATTACKS[64] and shifts 1ULL << 64
GenerateLegalMovesNoKing ==
  /\ Running
  /\ ~HasKings(board)
  /\ oob' = TRUE
  /\ op' = "generateLegalMoves"
  /\ UNCHANGED <<board, undo_stack, fen, result, perft>>
  /\ UNCHANGED magicVars
  /\ UNCHANGED ret

\* unmakeMove on a non-empty stack
UnmakeMove ==
  /\ Running
  /\ undo_stack # <<>>
  /\ board' = unmakeMove(board, undo_stack).board
  /\ undo_stack' = unmakeMove(board, undo_stack).undo_stack
  /\ op' = "unmakeMove"
  /\ UNCHANGED <<fen, result, oob, perft>>
  /\ UNCHANGED magicVars
  /\ UNCHANGED ret

\* unmakeMove on an empty stack: top() and pop() of an empty std::stack are
\* undefined; the read faults or installs whatever lies before the storage
GarbageBoards == {DefaultBoard, [DefaultBoard EXCEPT !.white_turn = FALSE]}

UnmakeMoveEmpty ==
  /\ Running
  /\ undo_stack = <<>>
  /\ \/ result' = "crash" /\ board' = board
     \/ result' = result /\ board' \in GarbageBoards \cup {board}
  /\ oob' = TRUE
  /\ op' = "unmakeMove"
  /\ UNCHANGED <<undo_stack, fen, perft>>
  /\ UNCHANGED magicVars
  /\ UNCHANGED ret

Next ==
  \/ InitFEN
  \/ MakeMove
  \/ GenerateLegalMovesNoKing
  \/ UnmakeMove
  \/ UnmakeMoveEmpty

Spec == Init /\ [][Next]_vars

(***************************************************************************)
(* Perft: the leaf positions reached by making every move of               *)
(* generateLegalMoves recursively, unmakeMove backtracking, for the        *)
(* depths 1, 2, 3 and 4 in turn.  A frame is one activation of the         *)
(* recursion: the moves generated at its node and the next one to try.     *)
(***************************************************************************)
\* the Board initFEN returns for a well-formed fen
boardOf(f) == (CHOOSE r \in initFEN(f) : TRUE).board

perftFrame(b) == [moves |-> generateLegalMoves(b), i |-> 1]

\* the deepest perft run
PerftDepths == 4

InitPerft ==
  /\ board = boardOf(STARTING_FEN)
  /\ undo_stack = <<>>
  /\ fen = STARTING_FEN
  /\ result = "position"
  /\ op = "initFEN"
  /\ oob = FALSE
  /\ perft = [depth |-> 1, frames |-> <<perftFrame(boardOf(STARTING_FEN))>>,
              nodes |-> 0, results |-> <<>>]
  /\ TablesBuilt
  /\ ret = NoCall

perftAtLeaf == Len(undo_stack) = perft.depth

perftTop == perft.frames[Len(perft.frames)]

\* the loop body: makeMove with the next move of the node; at the depth asked
\* for the position reached is a leaf (perft(0) = 1), otherwise recurse
PerftMake ==
  /\ perft.depth <= PerftDepths
  /\ ~perftAtLeaf
  /\ perftTop.i <= Len(perftTop.moves)
  /\ LET move == perftTop.moves[perftTop.i]
         made == makeMove(board, undo_stack, move).board
         leaf == Len(undo_stack) + 1 = perft.depth
         stepped == [perft.frames EXCEPT ![Len(perft.frames)].i = @ + 1]
     IN  /\ moverOf(board, move) # "none"
         /\ undo_stack' = makeMove(board, undo_stack, move).undo_stack
         /\ board' = made
         /\ perft' = [perft EXCEPT
                        !.frames = IF leaf THEN stepped
                                   ELSE Append(stepped, perftFrame(made)),
                        !.nodes = IF leaf THEN @ + 1 ELSE @]
  /\ op' = "makeMove"
  /\ UNCHANGED <<fen, result, oob>>
  /\ UNCHANGED magicVars
  /\ UNCHANGED ret

\* back from a leaf, or from a node whose moves are all done: unmakeMove
PerftUnmake ==
  /\ perft.depth <= PerftDepths
  /\ undo_stack # <<>>
  /\ perftAtLeaf \/ perftTop.i > Len(perftTop.moves)
  /\ board' = unmakeMove(board, undo_stack).board
  /\ undo_stack' = unmakeMove(board, undo_stack).undo_stack
  /\ perft' = [perft EXCEPT
                 !.frames = IF perftAtLeaf THEN @ ELSE SubSeq(@, 1, Len(@) - 1)]
  /\ op' = "unmakeMove"
  /\ UNCHANGED <<fen, result, oob>>
  /\ UNCHANGED magicVars
  /\ UNCHANGED ret

\* the run for this depth is over: record its count and start the next depth
PerftDone ==
  /\ perft.depth <= PerftDepths
  /\ undo_stack = <<>>
  /\ perftTop.i > Len(perftTop.moves)
  /\ perft' = [depth |-> perft.depth + 1, frames |-> <<perftFrame(board)>>,
               nodes |-> 0, results |-> Append(perft.results, perft.nodes)]
  /\ op' = "none"
  /\ UNCHANGED <<board, undo_stack, fen, result, oob>>
  /\ UNCHANGED magicVars
  /\ UNCHANGED ret

NextPerft == PerftMake \/ PerftUnmake \/ PerftDone

SpecPerft == InitPerft /\ [][NextPerft]_vars

(***************************************************************************)
(* The magic tables.  A 64-bit multiplier is kept as four 16-bit limbs,    *)
(* least significant first, so that blockers * magic is computed modulo    *)
(* 2^64 exactly: a bitboard is a sum of powers of two, and its product     *)
(* with the magic is the sum of the magic shifted left by each of its      *)
(* squares.                                                                *)
(***************************************************************************)
Word(h3, h2, h1, h0) == <<h0, h1, h2, h3>>

ZeroWord == <<0, 0, 0, 0>>

\* w << n on 64 bits, 0 <= n <= 63
shl64(w, n) ==
  LET q == n \div 16
      r == n % 16
      limb(k) ==
        LET src == k - q
            lo == IF src >= 1 THEN (w[src] % (2 ^ (16 - r))) * (2 ^ r) ELSE 0
            hi == IF src - 1 >= 1 THEN w[src - 1] \div (2 ^ (16 - r)) ELSE 0
        IN  lo + hi
  IN  <<limb(1), limb(2), limb(3), limb(4)>>

\* a + b on 64 bits
add64(a, b) ==
  LET s1 == a[1] + b[1]
      s2 == a[2] + b[2] + (s1 \div 65536)
      s3 == a[3] + b[3] + (s2 \div 65536)
      s4 == a[4] + b[4] + (s3 \div 65536)
  IN  <<s1 % 65536, s2 % 65536, s3 % 65536, s4 % 65536>>

\* bb * magic on 64 bits, bb a bitboard
RECURSIVE mulSquares(_, _)
mulSquares(sqs, magic) ==
  IF sqs = <<>> THEN ZeroWord
  ELSE add64(shl64(magic, Head(sqs)), mulSquares(Tail(sqs), magic))

mul64(bb, magic) == mulSquares(popLSB(bb), magic)

\* std::popcount of a value below 2^16
RECURSIVE bitcount16(_)
bitcount16(x) == IF x = 0 THEN 0 ELSE (x % 2) + bitcount16(x \div 2)

\* hash >> (64 - bits), for 1 <= bits <= 16
topBits(hash, bits) == hash[4] \div (2 ^ (16 - bits))

\* MagicData{}
DefaultMagicData == [mask |-> {}, magic |-> ZeroWord, offset |-> 0, index_bits |-> 0]

magicIndex(m, occupancy) ==
  LET blockers == occupancy \cap m.mask
      hash == mul64(blockers, m.magic)
      index == topBits(hash, m.index_bits)
  IN  m.offset + index

\* the i-th subset (i from 0) takes bits[j] when bit j of i is set
enumerateSubsets(mask) ==
  LET bits == popLSB(mask)
      n == Len(bits)
  IN  [i \in 1..(2 ^ n) |->
         {bits[j] : j \in {k \in 1..n : ((i - 1) \div (2 ^ (k - 1))) % 2 = 1}}] \o <<>>

\* 0xFFFFFFFFFFFFFFFF, the mark of an unfilled slot
Unfilled == Squares

\* the loop over occs for i in lo..hi (from 0), st = [ok, tmp]; it stops at
\* the first slot that holds another attack set
RECURSIVE fillLoop(_, _, _, _, _, _, _)
fillLoop(occs, attacks, magic, bits, i, hi, st) ==
  IF i > hi \/ ~st.ok THEN st
  ELSE LET blockers == occs[i + 1]
           hash == mul64(blockers, magic)
           index == topBits(hash, bits) % (2 ^ bits)
           atk == attacks[i + 1]
           cur == st.tmp[index + 1]
       IN  fillLoop(occs, attacks, magic, bits, i + 1, hi,
                    IF cur = Unfilled THEN [st EXCEPT !.tmp[index + 1] = atk]
                    ELSE IF cur # atk THEN [st EXCEPT !.ok = FALSE]
                    ELSE st)

\* the same loop, run over consecutive stretches of 64 subsets
RECURSIVE fillFrom(_, _, _, _, _, _)
fillFrom(occs, attacks, magic, bits, lo, st) ==
  IF lo >= Len(occs) \/ ~st.ok THEN st
  ELSE LET hi == IF lo + 63 < Len(occs) THEN lo + 63 ELSE Len(occs) - 1
           done == fillLoop(occs, attacks, magic, bits, lo, hi, st)
       IN  IF done.ok THEN fillFrom(occs, attacks, magic, bits, lo + 64, done)
           ELSE done

\* one pass of the while (!found) loop of buildSliderMagics for square sq
\* with the candidate magic: "rejected" by the upper-bits heuristic,
\* "collided", or "found" with the table tmp
tryMagic(rook_like, sq, magic) ==
  LET mask == IF rook_like THEN rookMask(sq) ELSE bishopMask(sq)
      bits == popcount(mask)
      table_size == 2 ^ bits
      occs == enumerateSubsets(mask)
      attacks == [i \in 1..Len(occs) |->
                    IF rook_like THEN rookAttacksSlow(sq, occs[i])
                    ELSE bishopAttacksSlow(sq, occs[i])] \o <<>>
      upper == mul64(mask, magic)[4] \div 256
      filled == fillFrom(occs, attacks, magic, bits, 0,
                         [ok |-> TRUE, tmp |-> [s \in 1..table_size |-> Unfilled] \o <<>>])
  IN  IF bitcount16(upper) < 6 THEN [verdict |-> "rejected", tmp |-> <<>>]
      ELSE IF filled.ok THEN [verdict |-> "found", tmp |-> filled.tmp]
      ELSE [verdict |-> "collided", tmp |-> <<>>]

(***************************************************************************)
(* initMagic, one pass of the magic search per step, for the squares       *)
(* 0..MagicSquares-1 of each slider; then the lookups.  randomMagic(rng)   *)
(* is a draw from MagicCandidates: the multipliers the generator settles   *)
(* on for the first squares, and three it discards on the way.             *)
(***************************************************************************)
\* the squares whose tables are built (the code builds all 64)
MagicSquares == 3

MagicCandidates ==
  {Word(\h0480, \h0480, \h4000, \h6130), Word(\h1280, \h1040, \h0080, \h2000),
   Word(\h2100, \h0814, \h4100, \h2001), Word(\h0284, \h8404, \h0842, \h0204),
   Word(\h1048, \h0200, \hc411, \h0004), Word(\h0108, \h0204, \h0028, \h0840),
   Word(\h0010, \h80c7, \h0004, \h0000), Word(\h0002, \h0090, \h8008, \h4300),
   Word(\h0044, \h8400, \h4000, \h0024)}

MagicSquareSet == 0..(MagicSquares - 1)

NewBuilt == [data |-> [sq \in MagicSquareSet |-> DefaultMagicData], table |-> <<>>]

InitMagic ==
  /\ board = DefaultBoard
  /\ undo_stack = <<>>
  /\ fen = <<>>
  /\ result = "none"
  /\ op = "none"
  /\ oob = FALSE
  /\ perft = PerftIdle
  /\ init_magic = [pc |-> "rook", sq |-> 0, rook |-> NewBuilt, bishop |-> NewBuilt,
                   verdict |-> "none", tries |-> 0]
  /\ ROOK_MAGIC_DATA = [sq \in MagicSquareSet |-> DefaultMagicData]
  /\ BISHOP_MAGIC_DATA = [sq \in MagicSquareSet |-> DefaultMagicData]
  /\ SLIDER_ATTACKS = <<>>
  /\ query = NoQuery
  /\ ret = NoCall

\* the end of the loop body of buildSliderMagics: store md, append tmp
storeMagic(bm, rook_like, sq, magic, tmp) ==
  LET mask == IF rook_like THEN rookMask(sq) ELSE bishopMask(sq)
      md == [mask |-> mask, magic |-> magic, index_bits |-> popcount(mask),
             offset |-> Len(bm.table)]
  IN  [data |-> [bm.data EXCEPT ![sq] = md], table |-> bm.table \o tmp]

\* the discarded candidates followed per square; the loop itself keeps no
\* count, tries is the number of passes that ended without a multiplier
MaxTries == 2

\* one candidate for the current square of the current slider
MagicTry ==
  /\ init_magic.pc \in {"rook", "bishop"}
  /\ \E magic \in MagicCandidates :
       LET rook_like == init_magic.pc = "rook"
           sq == init_magic.sq
           try == tryMagic(rook_like, sq, magic)
           last == sq + 1 = MagicSquares
           nextpc == IF ~last THEN init_magic.pc
                     ELSE IF rook_like THEN "bishop" ELSE "combine"
       IN  IF try.verdict = "found"
           THEN init_magic' =
                  [pc |-> nextpc,
                   sq |-> IF last THEN 0 ELSE sq + 1,
                   rook |-> IF rook_like
                            THEN storeMagic(init_magic.rook, TRUE, sq, magic, try.tmp)
                            ELSE init_magic.rook,
                   bishop |-> IF rook_like THEN init_magic.bishop
                              ELSE storeMagic(init_magic.bishop, FALSE, sq, magic, try.tmp),
                   verdict |-> "found",
                   tries |-> 0]
           ELSE /\ init_magic.tries < MaxTries
                /\ init_magic' = [init_magic EXCEPT !.verdict = try.verdict,
                                                    !.tries = @ + 1]
  /\ UNCHANGED <<ROOK_MAGIC_DATA, BISHOP_MAGIC_DATA, SLIDER_ATTACKS, query>>
  /\ UNCHANGED gameVars
  /\ UNCHANGED ret

\* the bishop offsets left as built, relative to the bishop table
adjustOffsets_NoShift(data, base) == data

\* BISHOP_MAGIC_DATA[sq].offset += base, for every square
adjustOffsets(data, base) ==
  [sq \in DOMAIN data |-> [data[sq] EXCEPT !.offset = @ + base]]

\* the rest of initMagic: publish the data, concatenate the tables
MagicCombine ==
  /\ init_magic.pc = "combine"
  /\ ROOK_MAGIC_DATA' = init_magic.rook.data
  /\ BISHOP_MAGIC_DATA' = adjustOffsets(init_magic.bishop.data, Len(init_magic.rook.table))
  /\ SLIDER_ATTACKS' = init_magic.rook.table \o init_magic.bishop.table
  /\ init_magic' = [init_magic EXCEPT !.pc = "ready", !.verdict = "none"]
  /\ UNCHANGED query
  /\ UNCHANGED gameVars
  /\ UNCHANGED ret

\* rookAttacks / bishopAttacks on the tables (the table is indexed from 0)
rookAttacksLookup(square, occupancy) ==
  SLIDER_ATTACKS[magicIndex(ROOK_MAGIC_DATA[square], occupancy) + 1]

bishopAttacksLookup(square, occupancy) ==
  SLIDER_ATTACKS[magicIndex(BISHOP_MAGIC_DATA[square], occupancy) + 1]

\* the occupancies looked up: those of the Boards of WellFormedFENs, the
\* empty board and the full one
Occupancies ==
  {boardOf(f).white \cup boardOf(f).black : f \in WellFormedFENs} \cup {{}, Squares}

MagicLookup ==
  /\ init_magic.pc = "ready"
  /\ \E slider \in {"rook", "bishop"}, square \in MagicSquareSet, occupancy \in Occupancies :
       query' = [slider |-> slider, square |-> square, occupancy |-> occupancy,
                 attacks |-> IF slider = "rook" THEN rookAttacksLookup(square, occupancy)
                             ELSE bishopAttacksLookup(square, occupancy)]
  /\ UNCHANGED <<init_magic, ROOK_MAGIC_DATA, BISHOP_MAGIC_DATA, SLIDER_ATTACKS>>
  /\ UNCHANGED gameVars
  /\ UNCHANGED ret

NextMagic == MagicTry \/ MagicCombine \/ MagicLookup

SpecMagic == InitMagic /\ [][NextMagic]_vars

(***************************************************************************)
(* The properties checked.                                                 *)
(***************************************************************************)
\* the squares of the pieces of one side that attack sq on the Board b, by
\* the rules of chess: each piece's own attack set, from where it stands
Attackers(b, sq, byWhite) ==
  LET own == IF byWhite THEN b.white ELSE b.black
      occ == b.white \cup b.black
  IN  {p \in own :
         \/ p \in b.pawn /\ sq \in (IF byWhite THEN WHITE_PAWN_ATTACKS[p]
                                               ELSE BLACK_PAWN_ATTACKS[p])
         \/ p \in b.knight /\ sq \in KNIGHT_ATTACKS[p]
         \/ p \in (b.bishop \cup b.queen) /\ sq \in bishopAttacksSlow(p, occ)
         \/ p \in (b.rook \cup b.queen) /\ sq \in rookAttacksSlow(p, occ)
         \/ p \in b.king /\ p # sq /\ constAbs(fileOf(p) - fileOf(sq)) <= 1
                         /\ constAbs(rankOf(p) - rankOf(sq)) <= 1}

OneKingEach(b) ==
  Cardinality(b.king \cap b.white) = 1 /\ Cardinality(b.king \cap b.black) = 1

\* the moves generateLegalMoves returns, as a set
LegalMoveSet(b) ==
  LET moves == generateLegalMoves(b) IN {moves[i] : i \in 1..Len(moves)}

PseudoMoveSet(b) ==
  LET moves == generatePseudoMoves(b) IN {moves[i] : i \in 1..Len(moves)}

\* C1: no self-check.  In every position with one king a side, after any
\* move returned by generateLegalMoves is made the mover's king is attacked
\* by no opponent piece; this includes positions where an opponent pawn
\* attacks the mover's king before the move.
C1_NoSelfCheck ==
  (Running /\ OneKingEach(board)) =>
    \A mv \in LegalMoveSet(board) :
      LET after == makeMove(board, undo_stack, mv).board
      IN  Attackers(after, kingSquare(after, board.white_turn), ~board.white_turn) = {}

\* C1: a position is reached where an opponent pawn attacks the king of the
\* side to move
C1_PawnCheckReached ==
  /\ Running /\ OneKingEach(board)
  /\ \E p \in Attackers(board, kingSquare(board, board.white_turn), ~board.white_turn) :
       p \in board.pawn

\* the perft counts of the standard starting position
PerftCounts == <<20, 400, 8902, 197281>>

\* C2: perft.  From the starting position the leaf counts of the recursive
\* generateLegalMoves / makeMove / unmakeMove walk are 20, 400, 8902 and
\* 197281 at depths 1, 2, 3 and 4.
C2_Perft ==
  \A d \in 1..Len(perft.results) :
    d \in DOMAIN PerftCounts => perft.results[d] = PerftCounts[d]

\* C2: the walks of depths 1, 2 and 3 are counted and the walk of depth 4
\* stands on one of its leaves
C2_PerftAtDepth4 ==
  /\ Len(perft.results) = 3
  /\ perft.depth = 4
  /\ Len(undo_stack) = 4
  /\ perft.nodes > 0

\* C3: round trip.  For any legal move, makeMove followed by unmakeMove
\* restores a Position identical in every field and an undo stack with the
\* same contents; and whenever makeMove has just run, unmakeMove leads back
\* to a Position and stack from which that makeMove leads to the present.
C3_RoundTrip ==
  (Running /\ HasKings(board)) =>
    /\ \A mv \in LegalMoveSet(board) :
         LET made == makeMove(board, undo_stack, mv)
         IN  unmakeMove(made.board, made.undo_stack)
               = [board |-> board, undo_stack |-> undo_stack]
    /\ (op = "makeMove") =>
         LET back == unmakeMove(board, undo_stack)
         IN  \E mv \in LegalMoveSet(back.board) :
               makeMove(back.board, back.undo_stack, mv)
                 = [board |-> board, undo_stack |-> undo_stack]

\* C3: unmakeMove has run after two makeMoves, and the Board is again the
\* one left by the first of them
C3_MadeAndUnmade ==
  /\ Running /\ op = "unmakeMove" /\ Len(undo_stack) = 1
  /\ \E mv \in LegalMoveSet(undo_stack[1]) : board = makeMoveBoard(undo_stack[1], mv)
  /\ board # undo_stack[1]

\* C4: double check.  Where analyzeChecks reports two or more checkers,
\* every move generateLegalMoves returns starts on the square of the king of
\* the side to move.
C4_DoubleCheckKingOnly ==
  (Running /\ HasKings(board) /\ popcount(analyzeChecks(board).checkers) >= 2) =>
    \A mv \in LegalMoveSet(board) : mv.from = kingSquare(board, board.white_turn)

\* C4: a double check in which the king has a legal move and another piece
\* has a pseudo-legal move that would capture one of the checkers
C4_DoubleCheckReached ==
  /\ Running /\ HasKings(board)
  /\ popcount(analyzeChecks(board).checkers) >= 2
  /\ LegalMoveSet(board) # {}
  /\ \E mv \in PseudoMoveSet(board) :
       /\ mv.from # kingSquare(board, board.white_turn)
       /\ mv.to \in analyzeChecks(board).checkers

\* C5: pins.  Every move generateLegalMoves returns from a square that
\* analyzeChecks marks as pinned ends inside pin_dirs of that square.
C5_PinnedStaysOnRay ==
  (Running /\ HasKings(board)) =>
    LET check_info == analyzeChecks(board)
    IN  \A mv \in LegalMoveSet(board) :
          mv.from \in check_info.pinned => mv.to \in check_info.pin_dirs[mv.from]

\* C5: a pinned piece has a legal move along its ray and a pseudo-legal move
\* off it
C5_PinnedPieceMoves ==
  /\ Running /\ HasKings(board)
  /\ \E mv \in LegalMoveSet(board) : mv.from \in analyzeChecks(board).pinned
  /\ \E mv \in PseudoMoveSet(board) :
       /\ mv.from \in analyzeChecks(board).pinned
       /\ mv.to \notin analyzeChecks(board).pin_dirs[mv.from]

\* C6: magic-table fidelity.  After initMagic, for every square built and
\* every subset b of its mask, the table lookup equals the ray walk, for
\* rooks and for bishops; the bishop offsets are those of the bishop table
\* shifted by the size of the rook table; and every lookup made afterwards
\* returns the attacks of the ray walk on the masked occupancy.
C6_MagicFidelity ==
  (init_magic.pc = "ready") =>
    /\ \A sq \in MagicSquareSet :
         BISHOP_MAGIC_DATA[sq].offset
           = init_magic.bishop.data[sq].offset + Len(init_magic.rook.table)
    /\ (query = NoQuery) =>
         \A sq \in MagicSquareSet :
           /\ \A b \in SUBSET rookMask(sq) :
                rookAttacksLookup(sq, b) = rookAttacksSlow(sq, b)
           /\ \A b \in SUBSET bishopMask(sq) :
                bishopAttacksLookup(sq, b) = bishopAttacksSlow(sq, b)
    /\ (query.slider = "rook") =>
         query.attacks = rookAttacks(query.square, query.occupancy)
    /\ (query.slider = "bishop") =>
         query.attacks = bishopAttacks(query.square, query.occupancy)

\* C6: the tables are built, the bishop part behind a non-empty rook part,
\* and a bishop lookup on a board with blockers has been made
C6_BishopLookupMade ==
  /\ init_magic.pc = "ready"
  /\ Len(init_magic.rook.table) > 0
  /\ Len(SLIDER_ATTACKS) > Len(init_magic.rook.table)
  /\ query.slider = "bishop"
  /\ query.occupancy \cap bishopMask(query.square) # {}

\* C7: the starting position.  generateLegalMoves on the Board initFEN
\* builds from the standard starting FEN returns exactly 20 moves: 16 from
\* white pawn squares (8 single pushes, 8 double pushes) and 4 from white
\* knight squares.
C7_StartingMoves ==
  (op = "initFEN" /\ fen = STARTING_FEN /\ result = "position") =>
    LET moves == generateLegalMoves(board)
        from(S) == {i \in 1..Len(moves) : moves[i].from \in S}
        pawns == from(board.pawn \cap board.white)
        knights == from(board.knight \cap board.white)
    IN  /\ Len(moves) = 20
        /\ Cardinality(pawns) = 16
        /\ Cardinality({i \in pawns : moves[i].to = moves[i].from + 8}) = 8
        /\ Cardinality({i \in pawns : moves[i].to = moves[i].from + 16}) = 8
        /\ Cardinality(knights) = 4

\* C7: initFEN has just built the Board of the standard starting FEN
C7_StartingPositionBuilt ==
  /\ op = "initFEN" /\ fen = STARTING_FEN /\ result = "position" /\ ~oob
  /\ Cardinality(board.white) = 16 /\ Cardinality(board.black) = 16
  /\ board.white_turn

\* the squares strictly between a and b on their shared rank or file
StrictlyBetween(a, b) ==
  {s \in Squares :
     \/ /\ rankOf(a) = rankOf(b) /\ rankOf(s) = rankOf(a)
        /\ \/ fileOf(a) < fileOf(s) /\ fileOf(s) < fileOf(b)
           \/ fileOf(b) < fileOf(s) /\ fileOf(s) < fileOf(a)
     \/ /\ fileOf(a) = fileOf(b) /\ fileOf(s) = fileOf(a)
        /\ \/ rankOf(a) < rankOf(s) /\ rankOf(s) < rankOf(b)
           \/ rankOf(b) < rankOf(s) /\ rankOf(s) < rankOf(a)}

\* the side to move's king is attacked by exactly one piece, a rook on r
SingleRookCheck(b, r) ==
  /\ Attackers(b, kingSquare(b, b.white_turn), ~b.white_turn) = {r}
  /\ r \in b.rook

\* C8: single rook check.  Where the king of the side to move is attacked
\* by exactly one opponent piece, a rook, every move returned is a non-king
\* move onto the rook's square, a non-king move onto a square strictly
\* between king and rook, or a king move to a square the opponent does not
\* attack once the move is made.
C8_SingleRookCheck ==
  (Running /\ OneKingEach(board)) =>
    \A r \in Squares :
      SingleRookCheck(board, r) =>
        LET ksq == kingSquare(board, board.white_turn)
        IN  \A mv \in LegalMoveSet(board) :
              \/ mv.from # ksq /\ mv.to = r
              \/ mv.from # ksq /\ mv.to \in StrictlyBetween(ksq, r)
              \/ /\ mv.from = ksq
                 /\ Attackers(makeMove(board, undo_stack, mv).board, mv.to,
                              ~board.white_turn) = {}

\* C8: a single rook check answered by a capture of the rook, by an
\* interposition and by a king move, with pseudo-legal moves left out
C8_RookCheckAnswered ==
  /\ Running /\ OneKingEach(board)
  /\ \E r \in Squares :
       /\ SingleRookCheck(board, r)
       /\ LET ksq == kingSquare(board, board.white_turn)
              legal == LegalMoveSet(board)
          IN  /\ \E mv \in legal : mv.from # ksq /\ mv.to = r
              /\ \E mv \in legal : mv.from # ksq /\ mv.to \in StrictlyBetween(ksq, r)
              /\ \E mv \in legal : mv.from = ksq
              /\ \E mv \in PseudoMoveSet(board) :
                   mv.from # ksq /\ mv \notin legal

PieceLetters == {"p", "n", "b", "r", "q", "k", "P", "N", "B", "R", "Q", "K"}

\* the squares a rank string describes: each digit its value, each other
\* character one
RECURSIVE rankWidth(_)
rankWidth(rank) ==
  IF rank = <<>> THEN 0
  ELSE (IF isdigit(Head(rank)) THEN digitValue(Head(rank)) ELSE 1) + rankWidth(Tail(rank))

\* malformed as the specification lists it: the six-field layout, 8 ranks of
\* 8 squares, digits and piece letters only, a numeric half-move field
MalformedFEN(f) ==
  LET fields == split(f, " ")
      ranks == IF fields = <<>> THEN <<>> ELSE split(fields[1], "/")
  IN  \/ Len(fields) < 6
      \/ Len(ranks) # 8
      \/ \E i \in 1..Len(ranks) : rankWidth(ranks[i]) # 8
      \/ \E i \in 1..Len(ranks) : \E j \in 1..Len(ranks[i]) :
           ~isdigit(ranks[i][j]) /\ ranks[i][j] \notin PieceLetters
      \/ Len(fields) >= 5 /\ \/ fields[5] = <<>>
                             \/ \E j \in 1..Len(fields[5]) : ~isdigit(fields[5][j])

\* C9: MalformedFEN.  initFEN rejects malformed input with an explicit error
\* and returns no Position; it never reads past the end of the field or rank
\* list and never silently produces a Position from such input.
C9_MalformedRejected ==
  (op = "initFEN" /\ MalformedFEN(fen)) =>
    /\ result \in {"invalid_argument", "out_of_range"}
    /\ ~oob

\* C9: initFEN has returned a Position for a FEN whose last rank describes
\* seven squares
C9_ShortRankAccepted ==
  op = "initFEN" /\ fen = FEN_ShortRank /\ result = "position"

\* C10: EmptyUndoStack.  unmakeMove called with an empty undo stack reports
\* a recoverable EmptyUndoStack error, leaves the Position and the stack
\* unchanged, and never reads the top of the empty stack.
C10_EmptyUndoStackReported ==
  [][(Running /\ undo_stack = <<>> /\ op' = "unmakeMove") =>
       /\ result' = "EmptyUndoStack"
       /\ board' = board
       /\ undo_stack' = undo_stack
       /\ ~oob']_vars

\* C10: unmakeMove has run on an empty stack and read out of bounds
C10_EmptyStackRead ==
  op = "unmakeMove" /\ oob /\ undo_stack = <<>>

\* the six piece-type sets of a Board
PieceFields == {"pawn", "knight", "bishop", "rook", "queen", "king"}

\* white and black are disjoint, the piece-type sets are pairwise disjoint,
\* and the piece-type sets together cover exactly the occupied squares
PositionInvariant(b) ==
  /\ b.white \cap b.black = {}
  /\ \A x, y \in PieceFields : x # y => b[x] \cap b[y] = {}
  /\ UNION {b[x] : x \in PieceFields} = b.white \cup b.black

\* C11: Position invariant.  In the Board initFEN builds from a well-formed
\* FEN and in every Board reached from it by makeMove with moves of
\* generateLegalMoves and by unmakeMove on a non-empty stack, white and black
\* are disjoint, the piece-type sets are pairwise disjoint, and their union
\* is the union of white and black.
C11_PositionInvariant ==
  (Running /\ ~MalformedFEN(fen)) =>
    /\ PositionInvariant(board)
    /\ \A i \in 1..Len(undo_stack) : PositionInvariant(undo_stack[i])

\* C11: makeMove has just made a capture on a Board of a well-formed FEN
C11_CaptureMade ==
  /\ Running /\ ~MalformedFEN(fen) /\ op = "makeMove"
  /\ Cardinality(board.white \cup board.black)
       < Cardinality(undo_stack[Len(undo_stack)].white
                       \cup undo_stack[Len(undo_stack)].black)

(***************************************************************************)
(* evaluate                                                                *)
(***************************************************************************)
TEMPO_SCORE == 10

\* enum class Piece
Piece == [Pawn |-> 0, Knight |-> 1, Bishop |-> 2, Rook |-> 3, Queen |-> 4, King |-> 5]

\* VALUES[i] of the code is VALUES[i + 1] here
VALUES == <<100, 320, 330, 500, 900, 0>>

BISHOP_PAIR == 30

addPieceScores(bitboard, piece) == popcount(bitboard) * VALUES[piece + 1]

\* evaluateSide without the bishop-pair bonus
evaluateSide_NoBishopPair(b, white_side) ==
  LET side == IF white_side THEN b.white ELSE b.black
  IN  addPieceScores(b.pawn \cap side, Piece.Pawn)
      + addPieceScores(b.knight \cap side, Piece.Knight)
      + addPieceScores(b.bishop \cap side, Piece.Bishop)
      + addPieceScores(b.rook \cap side, Piece.Rook)
      + addPieceScores(b.queen \cap side, Piece.Queen)
      + addPieceScores(b.king \cap side, Piece.King)

evaluateSide(b, white_side) ==
  LET side == IF white_side THEN b.white ELSE b.black
      score == addPieceScores(b.pawn \cap side, Piece.Pawn)
               + addPieceScores(b.knight \cap side, Piece.Knight)
               + addPieceScores(b.bishop \cap side, Piece.Bishop)
               + addPieceScores(b.rook \cap side, Piece.Rook)
               + addPieceScores(b.queen \cap side, Piece.Queen)
               + addPieceScores(b.king \cap side, Piece.King)
  IN  IF popcount(b.bishop \cap side) >= 2 THEN score + BISHOP_PAIR ELSE score

evaluate(b) ==
  LET white_score == evaluateSide(b, TRUE)
      black_score == evaluateSide(b, FALSE)
      score == white_score - black_score
  IN  score + (IF b.white_turn THEN TEMPO_SCORE ELSE -TEMPO_SCORE)

(***************************************************************************)
(* The const member functions, called on the Boards of a set of FENs and   *)
(* on the Boards a few moves away from them.                               *)
(***************************************************************************)
\* white has the bishop pair, black has one bishop and a knight
FEN_BishopPair ==
  <<"2", "b", "1", "k", "1", "n", "1", "/", "8", "/", "8", "/", "8", "/", "8", "/", "8", "/",
    "8", "/", "2", "B", "1", "K", "B", "2", " ", "w", " ", "-", " ", "-", " ", "0", " ", "1">>

\* pawns on their starting ranks, free, blocked one square ahead and blocked
\* two squares ahead; a white pawn on the last rank; a queen and a knight
FEN_Pawns ==
  <<"4", "k", "2", "P", "/", "p", "1", "p", "3", "p", "1", "/", "P", "7", "/", "2", "N", "5", "/",
    "6", "n", "1", "/", "1", "p", "4", "Q", "1", "/", "P", "P", "P", "2", "P", "P", "1", "/",
    "4", "K", "3", " ", "w", " ", "-", " ", "-", " ", "0", " ", "1">>

\* the same Board with black to move
FEN_PawnsBlack ==
  <<"4", "k", "2", "P", "/", "p", "1", "p", "3", "p", "1", "/", "P", "7", "/", "2", "N", "5", "/",
    "6", "n", "1", "/", "1", "p", "4", "Q", "1", "/", "P", "P", "P", "2", "P", "P", "1", "/",
    "4", "K", "3", " ", "b", " ", "-", " ", "-", " ", "0", " ", "1">>

\* the black knight on d3 checks the white king
FEN_KnightCheck ==
  <<"4", "k", "3", "/", "8", "/", "8", "/", "8", "/", "8", "/", "3", "n", "4", "/", "8", "/",
    "4", "K", "2", "R", " ", "w", " ", "-", " ", "-", " ", "0", " ", "1">>

\* the black queen next to the white king is defended by the rook on d8
FEN_DefendedQueen ==
  <<"3", "r", "k", "3", "/", "8", "/", "8", "/", "8", "/", "8", "/", "8", "/", "3", "q", "4", "/",
    "4", "K", "3", " ", "w", " ", "-", " ", "-", " ", "0", " ", "1">>

\* the white pawn on a7 steps or captures onto the last rank
FEN_LastRank ==
  <<"1", "n", "2", "k", "3", "/", "P", "7", "/", "8", "/", "8", "/", "8", "/", "8", "/", "7", "P", "/",
    "4", "K", "3", " ", "w", " ", "-", " ", "-", " ", "0", " ", "1">>

CallFENs ==
  WellFormedFENs
    \cup {FEN_BishopPair, FEN_Pawns, FEN_PawnsBlack, FEN_KnightCheck, FEN_DefendedQueen,
          FEN_LastRank}

\* the longest undo stack under which the functions are called
CallPly == 1

InitCalls ==
  /\ \E f \in CallFENs : fen = f /\ board = boardOf(f)
  /\ undo_stack = <<>>
  /\ result = "position"
  /\ op = "initFEN"
  /\ oob = FALSE
  /\ perft = PerftIdle
  /\ TablesBuilt
  /\ ret = NoCall

CallMakeMove == Len(undo_stack) < CallPly /\ MakeMove

\* board.evaluate()
Evaluate ==
  /\ Running
  /\ ret' = [call |-> "evaluate", board |-> board, value |-> evaluate(board)]
  /\ op' = "evaluate"
  /\ UNCHANGED <<board, undo_stack, fen, result, oob, perft>>
  /\ UNCHANGED magicVars

\* board.generatePseudoMoves(out)
GeneratePseudoMoves ==
  /\ Running
  /\ ret' = [call |-> "generatePseudoMoves", board |-> board,
             value |-> generatePseudoMoves(board)]
  /\ op' = "generatePseudoMoves"
  /\ UNCHANGED <<board, undo_stack, fen, result, oob, perft>>
  /\ UNCHANGED magicVars

\* board.analyzeChecks()
AnalyzeChecks ==
  /\ Running
  /\ HasKings(board)
  /\ ret' = [call |-> "analyzeChecks", board |-> board, value |-> analyzeChecks(board)]
  /\ op' = "analyzeChecks"
  /\ UNCHANGED <<board, undo_stack, fen, result, oob, perft>>
  /\ UNCHANGED magicVars

\* board.generateLegalMoves(), the moves kept
GenerateLegalMoves ==
  /\ Running
  /\ HasKings(board)
  /\ ret' = [call |-> "generateLegalMoves", board |-> board,
             value |-> generateLegalMoves(board)]
  /\ op' = "generateLegalMoves"
  /\ UNCHANGED <<board, undo_stack, fen, result, oob, perft>>
  /\ UNCHANGED magicVars

NextCalls ==
  \/ CallMakeMove
  \/ Evaluate
  \/ GeneratePseudoMoves
  \/ AnalyzeChecks
  \/ GenerateLegalMoves

SpecCalls == InitCalls /\ [][NextCalls]_vars

\* the material of one side as the claim counts it
MaterialScore(b, side) ==
  100 * Cardinality(b.pawn \cap side) + 320 * Cardinality(b.knight \cap side)
  + 330 * Cardinality(b.bishop \cap side) + 500 * Cardinality(b.rook \cap side)
  + 900 * Cardinality(b.queen \cap side) + 0 * Cardinality(b.king \cap side)
  + (IF Cardinality(b.bishop \cap side) >= 2 THEN 30 ELSE 0)

\* the two sides have as many pieces of each type, and the same bishop-pair
\* status
EqualMaterial(b) ==
  \A x \in PieceFields : Cardinality(b[x] \cap b.white) = Cardinality(b[x] \cap b.black)

\* C12: evaluation.  evaluate() is S(white) - S(black) + T with
\* S = 100 pawns + 320 knights + 330 bishops + 500 rooks + 900 queens
\* + 0 kings, plus 30 for two or more bishops, and T = +10 with white to
\* move, -10 with black to move; with equal material the score is positive
\* exactly when white is to move.
C12_Evaluation ==
  (ret.call = "evaluate") =>
    /\ ret.value = MaterialScore(ret.board, ret.board.white)
                   - MaterialScore(ret.board, ret.board.black)
                   + (IF ret.board.white_turn THEN 10 ELSE -10)
    /\ EqualMaterial(ret.board) => (ret.value > 0 <=> ret.board.white_turn)

\* C12: evaluate has run on a Board with black to move where white alone
\* has the bishop pair
C12_BishopPairEvaluated ==
  /\ ret.call = "evaluate"
  /\ ~ret.board.white_turn
  /\ Cardinality(ret.board.bishop \cap ret.board.white) >= 2
  /\ Cardinality(ret.board.bishop \cap ret.board.black) = 1

\* C13: checkers.  With one king a side, the checkers of analyzeChecks are
\* exactly the squares of the opponent pawns, knights, bishops, rooks and
\* queens that attack the square of the king of the side to move under the
\* current occupancy; a pawn is a checker exactly when the king stands on
\* one of the two squares it attacks.
C13_Checkers ==
  (ret.call = "analyzeChecks" /\ OneKingEach(ret.board)) =>
    ret.value.checkers
      = Attackers(ret.board, kingSquare(ret.board, ret.board.white_turn),
                  ~ret.board.white_turn) \ ret.board.king

\* C13: analyzeChecks has run on a Board where an opponent pawn attacks the
\* king of the side to move, and has reported no checker
C13_PawnCheckMissed ==
  /\ ret.call = "analyzeChecks" /\ OneKingEach(ret.board)
  /\ ret.value.checkers = {}
  /\ \E p \in Attackers(ret.board, kingSquare(ret.board, ret.board.white_turn),
                        ~ret.board.white_turn) : p \in ret.board.pawn

\* a and b stand on one rank, file or diagonal
Aligned(a, b) ==
  \/ rankOf(a) = rankOf(b)
  \/ fileOf(a) = fileOf(b)
  \/ constAbs(rankOf(a) - rankOf(b)) = constAbs(fileOf(a) - fileOf(b))

\* the squares strictly between two aligned squares a and b
BetweenOnLine(a, b) ==
  {s \in Squares \ {a, b} :
     /\ (rankOf(s) - rankOf(a)) * (fileOf(b) - fileOf(a))
          = (fileOf(s) - fileOf(a)) * (rankOf(b) - rankOf(a))
     /\ \/ rankOf(a) <= rankOf(s) /\ rankOf(s) <= rankOf(b)
        \/ rankOf(b) <= rankOf(s) /\ rankOf(s) <= rankOf(a)
     /\ \/ fileOf(a) <= fileOf(s) /\ fileOf(s) <= fileOf(b)
        \/ fileOf(b) <= fileOf(s) /\ fileOf(s) <= fileOf(a)}

\* C14: block mask.  With exactly one checker that is a bishop, rook or
\* queen on the king's rank, file or diagonal, block_mask is the squares
\* strictly between king and checker plus the checker's square; with a
\* single knight or pawn checker it is the checker's square; with no checker
\* or with two or more it is empty.
C14_BlockMask ==
  (ret.call = "analyzeChecks") =>
    LET b == ret.board
        ksq == kingSquare(b, b.white_turn)
        checkers == ret.value.checkers
        block_mask == ret.value.block_mask
    IN  /\ Cardinality(checkers) # 1 => block_mask = {}
        /\ \A c \in checkers :
             checkers = {c} =>
               /\ (c \in (b.bishop \cup b.rook \cup b.queen) /\ Aligned(ksq, c)) =>
                    block_mask = BetweenOnLine(ksq, c) \cup {c}
               /\ (c \in (b.knight \cup b.pawn)) => block_mask = {c}

\* C14: analyzeChecks has run with a single checker, a rook or bishop or
\* queen at a distance from the king
C14_SliderCheckAnalyzed ==
  /\ ret.call = "analyzeChecks"
  /\ Cardinality(ret.value.checkers) = 1
  /\ ret.value.checkers \subseteq (ret.board.bishop \cup ret.board.rook \cup ret.board.queen)
  /\ Cardinality(ret.value.block_mask) >= 3

\* the eight ray directions, as (rank step, file step)
Directions == {d \in (-1..1) \X (-1..1) : d # <<0, 0>>}

\* the numbers of steps from k in direction d that stay on the board
Steps(k, d) ==
  {n \in 1..7 : rankOf(k) + n * d[1] \in 0..7 /\ fileOf(k) + n * d[2] \in 0..7}

\* the square n steps from k in direction d
At(k, d, n) == (rankOf(k) + n * d[1]) * 8 + fileOf(k) + n * d[2]

\* along d from the king square k, the first occupied square is n steps away
\* and holds a piece of the side to move, and the next occupied square is m
\* steps away and holds an opponent slider that moves along d
PinAlong(b, k, d, n, m) ==
  LET occ == b.white \cup b.black
      next == IF b.white_turn THEN b.black ELSE b.white
      sliders == IF d[1] = 0 \/ d[2] = 0 THEN b.rook \cup b.queen
                 ELSE b.bishop \cup b.queen
  IN  /\ n \in Steps(k, d) /\ m \in Steps(k, d) /\ n < m
      /\ At(k, d, n) \in occ \ next
      /\ At(k, d, m) \in next \cap sliders
      /\ \A j \in 1..(m - 1) : j # n => At(k, d, j) \notin occ

\* C15: pin detection.  A square s is in pinned if and only if along one of
\* the 8 rays from the king of the side to move s is the first occupied
\* square, holds a friendly piece, and the next occupied square on the ray
\* holds an opponent rook or queen (orthogonal ray) or bishop or queen
\* (diagonal ray); pin_dirs[s] is then the squares of the ray from the
\* king's square to the slider's square, both included; pin_dirs of every
\* square not in pinned is empty.
C15_PinDetection ==
  (ret.call = "analyzeChecks") =>
    LET b == ret.board
        k == kingSquare(b, b.white_turn)
        pins == {x \in Directions \X (1..7) \X (1..7) : PinAlong(b, k, x[1], x[2], x[3])}
    IN  /\ ret.value.pinned = {At(k, x[1], x[2]) : x \in pins}
        /\ \A x \in pins :
             ret.value.pin_dirs[At(k, x[1], x[2])]
               = {k} \cup {At(k, x[1], j) : j \in 1..x[3]}
        /\ \A s \in Squares \ ret.value.pinned : ret.value.pin_dirs[s] = {}

\* C15: analyzeChecks has run on a Board with a piece pinned on a file and
\* a piece pinned on a diagonal
C15_TwoPinsAnalyzed ==
  /\ ret.call = "analyzeChecks"
  /\ LET k == kingSquare(ret.board, ret.board.white_turn)
     IN  /\ \E s \in ret.value.pinned : fileOf(s) = fileOf(k)
         /\ \E s \in ret.value.pinned : fileOf(s) # fileOf(k) /\ rankOf(s) # rankOf(k)

\* the squares of the pieces of one side that attack sq when the occupied
\* squares are occ, by the rules of chess
AttackersOn(b, sq, byWhite, occ) ==
  LET own == IF byWhite THEN b.white ELSE b.black
  IN  {p \in own \ {sq} :
         \/ p \in b.pawn /\ sq \in (IF byWhite THEN WHITE_PAWN_ATTACKS[p]
                                               ELSE BLACK_PAWN_ATTACKS[p])
         \/ p \in b.knight /\ sq \in KNIGHT_ATTACKS[p]
         \/ p \in (b.bishop \cup b.queen) /\ sq \in bishopAttacksSlow(p, occ)
         \/ p \in (b.rook \cup b.queen) /\ sq \in rookAttacksSlow(p, occ)
         \/ p \in b.king /\ constAbs(fileOf(p) - fileOf(sq)) <= 1
                         /\ constAbs(rankOf(p) - rankOf(sq)) <= 1}

\* the sign of an integer
Sign(x) == IF x > 0 THEN 1 ELSE IF x < 0 THEN -1 ELSE 0

\* the square one step beyond f on the line from c through f; -1 off the board
StepAway(c, f) ==
  LET r == rankOf(f) + Sign(rankOf(f) - rankOf(c))
      fl == fileOf(f) + Sign(fileOf(f) - fileOf(c))
  IN  IF r \in 0..7 /\ fl \in 0..7 THEN r * 8 + fl ELSE -1

\* the pseudo-legal king moves of the side to move
PseudoKingMoves(b) ==
  {mv \in PseudoMoveSet(b) : mv.from \in b.king \cap currentOccupied(b)}

\* C16: king-move filter.  A pseudo-legal king move from f to t is returned
\* by generateLegalMoves if and only if no opponent piece attacks t on the
\* occupancy with f removed and, when t holds an opponent piece, with t
\* removed too; so a king checked by a slider never steps to the next
\* square along the slider's line away from it, and the king captures a
\* piece only when no opponent piece attacks the piece's square.
C16_KingMoveFilter ==
  (ret.call = "generateLegalMoves" /\ OneKingEach(ret.board)) =>
    LET b == ret.board
        occ == b.white \cup b.black
        next == nextOccupied(b)
        legal == {ret.value[i] : i \in 1..Len(ret.value)}
        sliders == b.bishop \cup b.rook \cup b.queen
    IN  /\ \A mv \in PseudoKingMoves(b) :
             mv \in legal <=>
               AttackersOn(b, mv.to, ~b.white_turn,
                           IF mv.to \in next THEN occ \ {mv.from, mv.to}
                           ELSE occ \ {mv.from}) = {}
        /\ \A mv \in legal \cap PseudoKingMoves(b) :
             /\ \A c \in Attackers(b, mv.from, ~b.white_turn) \cap sliders :
                  mv.to # StepAway(c, mv.from)
             /\ mv.to \in next =>
                  Attackers(makeMoveBoard(b, mv), mv.to, ~b.white_turn) = {}

\* C16: generateLegalMoves has run on a Board where the step away from a
\* checking slider is a pseudo-legal king move and is not returned
C16_StepAwayRejected ==
  /\ ret.call = "generateLegalMoves" /\ OneKingEach(ret.board)
  /\ \E mv \in PseudoKingMoves(ret.board) :
       /\ \E c \in Attackers(ret.board, mv.from, ~ret.board.white_turn)
                     \cap (ret.board.bishop \cup ret.board.rook \cup ret.board.queen) :
            mv.to = StepAway(c, mv.from)
       /\ Attackers(ret.board, mv.to, ~ret.board.white_turn) = {}
       /\ \A i \in 1..Len(ret.value) : ret.value[i] # mv

\* the pairs (from, to) that are pseudo-legal moves of the side to move, by
\* the rules the engine implements: no en passant, castling or promotion
PseudoLegalPairs(b) ==
  LET own == currentOccupied(b)
      opp == nextOccupied(b)
      occ == b.white \cup b.black
      ahead == IF b.white_turn THEN 1 ELSE -1
      start == IF b.white_turn THEN 1 ELSE 6
      dr(x) == rankOf(x[2]) - rankOf(x[1])
      df(x) == fileOf(x[2]) - fileOf(x[1])
      clear(x) == BetweenOnLine(x[1], x[2]) \cap occ = {}
      straight(x) == dr(x) = 0 \/ df(x) = 0
      diagonal(x) == constAbs(dr(x)) = constAbs(df(x))
  IN  {x \in own \X (Squares \ own) :
         \/ /\ x[1] \in b.pawn
            /\ \/ dr(x) = ahead /\ df(x) = 0 /\ x[2] \notin occ
               \/ /\ dr(x) = 2 * ahead /\ df(x) = 0 /\ rankOf(x[1]) = start
                  /\ x[2] \notin occ /\ clear(x)
               \/ dr(x) = ahead /\ constAbs(df(x)) = 1 /\ x[2] \in opp
         \/ /\ x[1] \in b.knight
            /\ {constAbs(dr(x)), constAbs(df(x))} = {1, 2}
         \/ /\ x[1] \in b.king
            /\ constAbs(dr(x)) <= 1 /\ constAbs(df(x)) <= 1
         \/ x[1] \in (b.bishop \cup b.queen) /\ diagonal(x) /\ clear(x)
         \/ x[1] \in (b.rook \cup b.queen) /\ straight(x) /\ clear(x)}

\* C17: pseudo-legal completeness.  On a Board that satisfies the Position
\* invariant, generatePseudoMoves emits every pseudo-legal (from, to) of the
\* side to move exactly once and nothing else: pawn pushes onto empty
\* squares, double pushes from the starting rank over an empty square,
\* pawn captures of opponent pieces, knight and king steps and bishop, rook
\* and queen slides up to the first blocker, never onto an own piece.
C17_PseudoLegalComplete ==
  (ret.call = "generatePseudoMoves" /\ PositionInvariant(ret.board)) =>
    /\ {<<ret.value[i].from, ret.value[i].to>> : i \in 1..Len(ret.value)}
         = PseudoLegalPairs(ret.board)
    /\ \A i, j \in 1..Len(ret.value) :
         (ret.value[i].from = ret.value[j].from /\ ret.value[i].to = ret.value[j].to)
           => i = j

\* C17: generatePseudoMoves has run on a Board where the side to move has a
\* pawn on its starting rank blocked one square ahead with the square behind
\* the blocker free, and has emitted a double push and a capture
C17_BlockedPawnGenerated ==
  /\ ret.call = "generatePseudoMoves" /\ PositionInvariant(ret.board)
  /\ LET b == ret.board
         occ == b.white \cup b.black
         step == IF b.white_turn THEN 8 ELSE -8
         start == IF b.white_turn THEN 1 ELSE 6
     IN  /\ \E p \in b.pawn \cap currentOccupied(b) :
              rankOf(p) = start /\ (p + step) \in occ /\ (p + 2 * step) \notin occ
         /\ \E i \in 1..Len(ret.value) : ret.value[i].flags = DoublePush
         /\ \E i \in 1..Len(ret.value) : ret.value[i].flags = Capture

\* C18: move flags.  On a Board that satisfies the Position invariant every
\* move emitted by generatePseudoMoves or generateLegalMoves carries Capture
\* exactly when its destination holds an opponent piece, DoublePush exactly
\* when it is a pawn advance of two ranks, and never EnPassant, Castle or
\* Promotion.
C18_MoveFlags ==
  (ret.call \in {"generatePseudoMoves", "generateLegalMoves"}
     /\ PositionInvariant(ret.board)) =>
    \A i \in 1..Len(ret.value) :
      LET m == ret.value[i]
          b == ret.board
      IN  /\ HasFlag(m.flags, Capture) <=> m.to \in nextOccupied(b)
          /\ HasFlag(m.flags, DoublePush)
               <=> (m.from \in b.pawn /\ constAbs(rankOf(m.to) - rankOf(m.from)) = 2)
          /\ ~HasFlag(m.flags, EnPassant)
          /\ ~HasFlag(m.flags, Castle)
          /\ ~HasFlag(m.flags, Promotion)
          /\ m.flags \in 0..31

\* C18: generateLegalMoves has returned a capture, a double push and a pawn
\* move onto the last rank
C18_FlaggedMovesReturned ==
  /\ ret.call = "generateLegalMoves" /\ PositionInvariant(ret.board)
  /\ \E i \in 1..Len(ret.value) :
       ret.value[i].from \in ret.board.pawn /\ rankOf(ret.value[i].to) \in {0, 7}
  /\ \E i \in 1..Len(ret.value) : ret.value[i].flags = DoublePush
  /\ \E i \in 1..Len(ret.value) : ret.value[i].flags = Capture

\* the piece types and the colours a Board records on a square
TypesAt(b, s) == {x \in PieceFields : s \in b[x]}
ColorsAt(b, s) == {c \in {"white", "black"} : s \in b[c]}

\* the Board after is the Board before with the move made, as the claim
\* states it square by square
MoveEffect(before, move, after) ==
  LET color == IF before.white_turn THEN "white" ELSE "black"
  IN  /\ TypesAt(after, move.from) = {} /\ ColorsAt(after, move.from) = {}
      /\ Cardinality(TypesAt(before, move.from)) = 1
      /\ TypesAt(after, move.to) = TypesAt(before, move.from)
      /\ ColorsAt(after, move.to) = {color}
      /\ ColorsAt(before, move.from) = {color}
      /\ \A s \in Squares \ {move.from, move.to} :
           TypesAt(after, s) = TypesAt(before, s) /\ ColorsAt(after, s) = ColorsAt(before, s)
      /\ after.white_turn = ~before.white_turn
      /\ after.half_moves = before.half_moves
      /\ after.white_castle_kingside = before.white_castle_kingside
      /\ after.white_castle_queenside = before.white_castle_queenside
      /\ after.black_castle_kingside = before.black_castle_kingside
      /\ after.black_castle_queenside = before.black_castle_queenside

\* C19: makeMove effect and frame.  For every move generateLegalMoves returns
\* on the current Board, makeMove leaves the origin empty, puts exactly the
\* mover's type and colour on the destination (a captured piece is gone from
\* the opponent's set and from every type set), keeps every other square,
\* flips the side to move and keeps half_moves and the castling flags; and
\* the Board a makeMove call has left is the effect of one of the moves
\* generateLegalMoves returned on the Board that was pushed.
C19_MakeMoveEffect ==
  /\ (Running /\ HasKings(board)) =>
       LET moves == generateLegalMoves(board)
       IN  \A i \in 1..Len(moves) :
             MoveEffect(board, moves[i], makeMove(board, undo_stack, moves[i]).board)
  /\ (Running /\ op = "makeMove") =>
       LET before == undo_stack[Len(undo_stack)]
           moves == generateLegalMoves(before)
       IN  \E i \in 1..Len(moves) : MoveEffect(before, moves[i], board)

\* C19: makeMove has just made a capture of a piece of the mover's own type
C19_SameTypeCaptured ==
  /\ Running /\ op = "makeMove"
  /\ LET before == undo_stack[Len(undo_stack)]
     IN  \E t \in board.white \cup board.black :
           /\ t \in nextOccupied(before)
           /\ TypesAt(before, t) = TypesAt(board, t)
           /\ ColorsAt(before, t) # ColorsAt(board, t)

\* the Position at depth 0 of the undo stack: the oldest snapshot, or the
\* current Board when nothing is pushed
Bottom == IF undo_stack = <<>> THEN board ELSE undo_stack[1]

\* C20: the undo stack is LIFO.  As long as unmakeMove is not called on an
\* empty stack, every makeMove appends exactly the Board as it was before the
\* call (the depth grows by one), every unmakeMove installs the top snapshot
\* and removes it (the depth shrinks by one), so the depth is the number of
\* makeMove calls less the number of unmakeMove calls; and the Position at
\* depth 0 never changes, so the Board is the initial one whenever the depth
\* is back to 0.
C20_UndoStackLIFO ==
  /\ [][(Running /\ Running' /\ op' = "makeMove") =>
          /\ undo_stack' = Append(undo_stack, board)
          /\ Len(undo_stack') = Len(undo_stack) + 1]_vars
  /\ [][(Running /\ Running' /\ op' = "unmakeMove") =>
          /\ undo_stack # <<>>
          /\ board' = undo_stack[Len(undo_stack)]
          /\ undo_stack' = SubSeq(undo_stack, 1, Len(undo_stack) - 1)
          /\ Len(undo_stack') = Len(undo_stack) - 1]_vars
  /\ [][(Running /\ Running') => Bottom' = Bottom]_vars

\* C20: after makeMove calls and as many unmakeMove calls the stack is empty
\* again and the Board is the one initFEN built
C20_BackAtDepthZero ==
  /\ Running /\ op = "unmakeMove" /\ undo_stack = <<>>
  /\ ~MalformedFEN(fen) /\ board = boardOf(fen)

\* the n-th field of str (n from 1) when delim separates the fields
FieldOf(str, delim, n) ==
  LET delims == {i \in 1..Len(str) : str[i] = delim}
      nth(k) == IF k = 0 THEN 0
                ELSE IF k > Cardinality(delims) THEN Len(str) + 1
                ELSE CHOOSE i \in delims : Cardinality({j \in delims : j <= i}) = k
  IN  SubSeq(str, nth(n - 1) + 1, nth(n) - 1)

\* the value of a decimal digit, and of a string of decimal digits
DigitOf ==
  "0" :> 0 @@ "1" :> 1 @@ "2" :> 2 @@ "3" :> 3 @@ "4" :> 4 @@ "5" :> 5 @@ "6" :> 6
    @@ "7" :> 7 @@ "8" :> 8 @@ "9" :> 9

RECURSIVE Decimal(_)
Decimal(str) ==
  IF str = <<>> THEN 0
  ELSE 10 * Decimal(SubSeq(str, 1, Len(str) - 1)) + DigitOf[str[Len(str)]]

\* the file the j-th character of a rank string describes: every digit
\* before it counts its value, every letter before it counts one
RECURSIVE FileCursor(_, _)
FileCursor(rank, j) ==
  IF j <= 1 THEN 0
  ELSE FileCursor(rank, j - 1)
       + (IF rank[j - 1] \in DOMAIN DigitOf THEN DigitOf[rank[j - 1]] ELSE 1)

\* the pieces a FEN describes: <<square, letter>>
Placements(f) ==
  LET placement == FieldOf(f, " ", 1)
  IN  UNION {LET rank == FieldOf(placement, "/", i + 1)
             IN  {<<(7 - i) * 8 + FileCursor(rank, j), rank[j]>> :
                    j \in {k \in 1..Len(rank) : rank[k] \in PieceLetters}} :
             i \in 0..7}

\* the squares of the pieces written with one of the letters
SquaresOf(f, letters) == {x[1] : x \in {y \in Placements(f) : y[2] \in letters}}

\* well-formed: the six-field layout of MalformedFEN, and a half-move field
\* that an int can hold (a longer digit string is unparseable: std::stoi
\* throws out_of_range)
WellFormedFEN(f) ==
  /\ ~MalformedFEN(f)
  /\ Len(FieldOf(f, " ", 5)) <= 10
  /\ Decimal(FieldOf(f, " ", 5)) <= INT_MAX

\* C21: FEN decoding.  For a well-formed FEN initFEN returns a Position in
\* which the piece written at file f of the i-th rank listed stands on
\* square (7 - i) * 8 + f, in white for an uppercase and in black for a
\* lowercase letter and in the piece-type set of its letter, every other
\* square is empty, white is to move exactly when field 2 is "w", and
\* half_moves is the integer of field 5.
C21_FENDecoding ==
  (op = "initFEN" /\ WellFormedFEN(fen)) =>
    /\ result = "position" /\ ~oob
    /\ board.white = SquaresOf(fen, {"P", "N", "B", "R", "Q", "K"})
    /\ board.black = SquaresOf(fen, {"p", "n", "b", "r", "q", "k"})
    /\ board.pawn = SquaresOf(fen, {"p", "P"})
    /\ board.knight = SquaresOf(fen, {"n", "N"})
    /\ board.bishop = SquaresOf(fen, {"b", "B"})
    /\ board.rook = SquaresOf(fen, {"r", "R"})
    /\ board.queen = SquaresOf(fen, {"q", "Q"})
    /\ board.king = SquaresOf(fen, {"k", "K"})
    /\ board.white_turn = (FieldOf(fen, " ", 2) = <<"w">>)
    /\ board.half_moves = Decimal(FieldOf(fen, " ", 5))

\* C21: initFEN has decoded a well-formed FEN with Black to move, a
\* half-move clock of two digits and a piece placed after a digit
C21_ClockAndSideDecoded ==
  /\ op = "initFEN" /\ WellFormedFEN(fen) /\ result = "position"
  /\ FieldOf(fen, " ", 2) = <<"b">>
  /\ Len(FieldOf(fen, " ", 5)) = 2
  /\ board.half_moves = 37
  /\ board.king = {4, 60}

\* C22: magic search termination.  For every square and both sliders the
\* candidate loop of buildSliderMagics tries a bounded number of candidates
\* and, once that many have been discarded without a collision-free
\* multiplier, stops and reports a failure: the search is never seen with
\* MaxTries candidates discarded for one square and no failure reported.
C22_RetriesCapped ==
  (init_magic.pc \in {"rook", "bishop"} /\ init_magic.tries >= MaxTries)
    => init_magic.verdict = "failed"

\* C22: a candidate has been discarded for a square after an earlier square
\* got its multiplier, and the loop goes on to the next candidate
C22_CandidateDiscarded ==
  /\ init_magic.pc \in {"rook", "bishop"}
  /\ init_magic.sq >= 1
  /\ init_magic.verdict \in {"rejected", "collided"}
  /\ init_magic.tries >= 1

\* the side that is not to move is not in check
OpponentNotInCheck(b) ==
  Attackers(b, kingSquare(b, ~b.white_turn), b.white_turn) = {}

\* the pseudo-legal moves of b after which the mover's king is not attacked
SafeMoveSet(b) ==
  {mv \in PseudoMoveSet(b) :
     LET after == makeMoveBoard(b, mv)
     IN  Attackers(after, kingSquare(after, b.white_turn), ~b.white_turn) = {}}

\* C23: legal-move completeness.  In every position with one king a side in
\* which the side not to move is not in check, every move of
\* generatePseudoMoves that leaves the mover's king unattacked once made is
\* returned by generateLegalMoves; an opponent pawn standing diagonally
\* behind the king causes no such move to be dropped.
C23_LegalMovesComplete ==
  (Running /\ OneKingEach(board) /\ OpponentNotInCheck(board)) =>
    SafeMoveSet(board) \subseteq LegalMoveSet(board)

\* C23: an opponent pawn stands on a square the king's pawn-attack table of
\* the wrong colour names, attacks nothing, and generateLegalMoves drops a
\* move that leaves the king unattacked
C23_SafeMoveDropped ==
  /\ Running /\ OneKingEach(board) /\ OpponentNotInCheck(board)
  /\ LET ksq == kingSquare(board, board.white_turn)
     IN  /\ Attackers(board, ksq, ~board.white_turn) = {}
         /\ \E p \in board.pawn \cap nextOccupied(board) :
              constAbs(fileOf(p) - fileOf(ksq)) = 1 /\ constAbs(rankOf(p) - rankOf(ksq)) = 1
         /\ \E mv \in SafeMoveSet(board) : mv \notin LegalMoveSet(board)

(***************************************************************************)
(* Play from the standard starting position: every move is taken from      *)
(* generateLegalMoves of the current Board and made by makeMove.  The      *)
(* moves followed are those of a few pawns and of the black king.          *)
(***************************************************************************)
\* the longest sequence of moves followed
LinePly == 7

\* <<from, to>> of the moves followed: a2-a3-a4, h2-h3-h4, d2-d4-d5-d6,
\* d6xc7, d6xe7 for White; a7-a6-a5, h7-h6-h5, e7-e6, Ke8-e7 for Black
LineMoves ==
  {<<8, 16>>, <<16, 24>>, <<15, 23>>, <<23, 31>>, <<11, 27>>, <<27, 35>>, <<35, 43>>,
   <<43, 50>>, <<43, 52>>,
   <<48, 40>>, <<40, 32>>, <<55, 47>>, <<47, 39>>, <<52, 44>>, <<60, 52>>}

InitLine ==
  /\ board = boardOf(STARTING_FEN)
  /\ undo_stack = <<>>
  /\ fen = STARTING_FEN
  /\ result = "position"
  /\ op = "initFEN"
  /\ oob = FALSE
  /\ perft = PerftIdle
  /\ TablesBuilt
  /\ ret = NoCall

\* generateLegalMoves, then makeMove with one of the moves returned
PlayMove ==
  /\ Running
  /\ HasKings(board)
  /\ Len(undo_stack) < LinePly
  /\ LET moves == generateLegalMoves(board)
     IN  \E i \in 1..Len(moves) :
           /\ <<moves[i].from, moves[i].to>> \in LineMoves
           /\ moverOf(board, moves[i]) # "none"
           /\ undo_stack' = makeMove(board, undo_stack, moves[i]).undo_stack
           /\ board' = makeMove(board, undo_stack, moves[i]).board
  /\ op' = "makeMove"
  /\ UNCHANGED <<fen, result, oob, perft>>
  /\ UNCHANGED magicVars
  /\ UNCHANGED ret

NextLine ==
  \/ PlayMove
  \/ GenerateLegalMovesNoKing

SpecLine == InitLine /\ [][NextLine]_vars

\* C24: the king is never captured.  In every position reached from the
\* standard starting position by makeMove with moves of generateLegalMoves
\* each side has exactly one king, no move generateLegalMoves returns lands
\* on the opponent's king, and kingSquare never returns 64 to index the
\* attack tables.
C24_KingNeverCaptured ==
  (fen = STARTING_FEN /\ result = "position") =>
    /\ OneKingEach(board)
    /\ \A mv \in LegalMoveSet(board) : mv.to \notin board.king
    /\ ~oob

\* C24: makeMove has just captured the black king with a move that
\* generateLegalMoves returned
C24_KingCaptured ==
  /\ fen = STARTING_FEN /\ result = "position" /\ op = "makeMove"
  /\ board.king \cap board.black = {}
  /\ OneKingEach(undo_stack[Len(undo_stack)])
  /\ \E mv \in LegalMoveSet(undo_stack[Len(undo_stack)]) :
       /\ mv.to \in undo_stack[Len(undo_stack)].king
       /\ board = makeMoveBoard(undo_stack[Len(undo_stack)], mv)
====
